---- MODULE Spec2Model ----
(***************************************************************************)
(* Alert evaluation and notification dispatch engine of the CI/CD          *)
(* dashboard backend (services/alertService, services/jenkinsService,      *)
(* services/githubService, routes/alerts).                                 *)
(*                                                                         *)
(* Time is counted in minutes.  Text that the code only compares or        *)
(* concatenates (job names, outcome words) is a TLA+ string; text that the *)
(* code parses (email recipient lists) is a sequence of one-character      *)
(* strings.                                                                *)
(***************************************************************************)
EXTENDS Integers, Sequences, FiniteSets, TLC

VARIABLES
  alerts,     \* the alert store: alert id -> AlertDefinition (prisma.alert)
  now,        \* the clock, in minutes (Date.now())
  ticks,      \* how many times the clock has advanced
  history,    \* prisma.alertHistory: the sequence of NotificationEvents
  pass,       \* pass id -> the locals of one run of evaluateAndSendAlerts
  calls,      \* <<alert id, provider>>: provider HTTP calls made on behalf of an alert
  queried,    \* alert ids the history store has been queried for
  faults,     \* how many calls to the database or to a provider have failed so far
  scheduled,  \* alertService's module variable: the registered cron job or null
  testOut,    \* what the last POST /alerts/test did and answered
  feed,       \* what the providers serve: the latest builds of the Jenkins jobs and the
              \* runs of the GitHub repository
  boot,       \* server.js: the value of ALERTS_ENABLED, whether the listen callback
              \* has run, and how often it has called startAlertScheduler
  sanIn,      \* argument of a stand-alone sanitizeRecipients call
  sanOut,     \* its result
  jobsIn,     \* the job tree of the Jenkins server of a stand-alone getJobs call
  jobsOut,    \* its result
  runsIn,     \* the workflows and runs GitHub serves to a stand-alone workflowsSummary call
  sumOut,     \* its result
  linkIn,     \* a link Jenkins served and the base URL of the integration it came from
  linkOut     \* the link the adapter returns for it

\* the state of the alert engine, of its routes and of the server
engineVars ==
  <<alerts, now, ticks, history, pass, calls, queried, faults, scheduled, testOut, boot, feed>>

\* the arguments and results of the functions that are checked on their own
sanVars == <<sanIn, sanOut>>
jobVars == <<jobsIn, jobsOut>>
sumVars == <<runsIn, sumOut>>
linkVars == <<linkIn, linkOut>>
pureVars == <<sanVars, jobVars, sumVars, linkVars>>

vars == <<engineVars, pureVars>>

----------------------------------------------------------------------------
(* Bounds of the model *)

MaxPasses == 2
MaxTicks == 1
MaxFaults == 1
MaxTokens == 3

(* Program constants *)

\* const recent = Number(cond.recentMinutes || 180)
DefaultRecentMinutes == 180
\* async function alreadySentRecently(alertId, message, minutes = 60)
DefaultDedupMinutes == 60

----------------------------------------------------------------------------
(* Recipient sanitization: githubService.js 253-269 *)

Str_com == <<".", "c", "o", "m">>
Str_test == <<".", "t", "e", "s", "t">>
Str_local == <<".", "l", "o", "c", "a", "l">>

BLOCKED_DOMAINS == {Str_local, Str_test}
BLOCKED_ADDRESSES == {<<"d", "e", "v", "@", "l", "o", "c", "a", "l">> \o Str_test}

\* \s of the split pattern and of the address pattern
IsSpace(c) == c \in {" ", "\t", "\n"}

\* the separator class [;,\s]
IsSep(c) == c \in {";", ","} \/ IsSpace(c)

RECURSIVE SplitParts(_, _, _)
\* raw.split(/[;,\s]+/).map(trim).filter(Boolean): the maximal separator-free
\* runs of raw, in order (cur: the run being read, acc: the runs read)
SplitParts(raw, cur, acc) ==
  IF raw = <<>>
    THEN (IF cur = <<>> THEN acc ELSE Append(acc, cur))
    ELSE IF IsSep(Head(raw))
      THEN SplitParts(Tail(raw), <<>>, IF cur = <<>> THEN acc ELSE Append(acc, cur))
      ELSE SplitParts(Tail(raw), Append(cur, Head(raw)), acc)

LowerChar(c) ==
  CASE c = "A" -> "a" [] c = "B" -> "b" [] c = "C" -> "c" [] c = "D" -> "d"
    [] c = "E" -> "e" [] c = "L" -> "l" [] c = "M" -> "m" [] c = "O" -> "o"
    [] c = "S" -> "s" [] c = "T" -> "t" [] c = "V" -> "v" [] OTHER -> c

toLowerCase(s) == [i \in 1..Len(s) |-> LowerChar(s[i])]

\* /^[^@\s]+@[^@\s]+\.[^@\s]+$/.test(a)
emailRegexTest(a) ==
  LET ats == {i \in 1..Len(a) : a[i] = "@"} IN
  /\ \A i \in 1..Len(a) : ~IsSpace(a[i])
  /\ Cardinality(ats) = 1
  /\ \E k \in ats : k >= 2 /\ \E m \in (k + 2)..(Len(a) - 1) : a[m] = "."

endsWith(a, d) ==
  Len(a) >= Len(d) /\ SubSeq(a, Len(a) - Len(d) + 1, Len(a)) = d

\* a filter that forgets the denylisted suffixes
M_KeepRecipient(addr) ==
  LET a == toLowerCase(addr) IN
  emailRegexTest(a) /\ a \notin BLOCKED_ADDRESSES

\* the callback of parts.filter
KeepRecipient(addr) ==
  LET a == toLowerCase(addr) IN
  /\ emailRegexTest(a)
  /\ a \notin BLOCKED_ADDRESSES
  /\ ~\E d \in BLOCKED_DOMAINS : endsWith(a, d)

sanitizeRecipients(input) ==
  SelectSeq(SplitParts(input, <<>>, <<>>), KeepRecipient)

RECURSIVE join(_, _)
\* recips.join(sep)
join(recips, sep) ==
  IF recips = <<>> THEN <<>>
  ELSE IF Len(recips) = 1 THEN Head(recips)
  ELSE Head(recips) \o sep \o join(Tail(recips), sep)

----------------------------------------------------------------------------
(* The stores and the providers the engine reads.  The engine never writes *)
(* them, and they do not change during a behaviour.                        *)

To_ok == <<"a", "@", "b">> \o Str_com
To_blocked == <<"c", "@", "d">> \o Str_test
To_none == <<>>

\* AlertDefinition rows; recentMinutes = 0 and event = "" and jenkinsJob = ""
\* stand for a key that is missing from conditions (each is read with ||)
BaseAlert(id) ==
  [id |-> id, isActive |-> TRUE, type |-> "BUILD_FAILURE", provider |-> "",
   event |-> "", recentMinutes |-> 120, jenkinsJob |-> "",
   emailTo |-> To_ok, slackUrl |-> "https://hooks/x"]

AlertCatalog(id) ==
  { BaseAlert(id),
    [BaseAlert(id) EXCEPT !.isActive = FALSE],
    [BaseAlert(id) EXCEPT !.type = "DEPLOYMENT_FAILURE"],
    [BaseAlert(id) EXCEPT !.type = "CUSTOM", !.provider = "jenkins",
                          !.event = "COMPLETED", !.recentMinutes = 0,
                          !.emailTo = To_none],
    [BaseAlert(id) EXCEPT !.type = "PERFORMANCE_DEGRADATION", !.provider = "github",
                          !.event = "SUCCESS", !.emailTo = To_blocked],
    [BaseAlert(id) EXCEPT !.provider = "gitlab"] }

SecondAlerts(id) ==
  { [BaseAlert(id) EXCEPT !.isActive = FALSE],
    [BaseAlert(id) EXCEPT !.provider = "jenkins", !.event = "FAILURE",
                          !.jenkinsJob = "svc-ci", !.slackUrl = ""],
    [BaseAlert(id) EXCEPT !.provider = "jenkins", !.event = "FAILURE",
                          !.jenkinsJob = "svc-ci", !.emailTo = To_none, !.slackUrl = ""] }

\* the stores of two alerts: at most one of the two is evaluated against Jenkins
AlertPairs ==
  {pair \in AlertCatalog("a1") \X SecondAlerts("a2") :
     ~(/\ pair[1].isActive /\ pair[1].type # "DEPLOYMENT_FAILURE"
          /\ pair[1].provider \in {"", "jenkins"}
       /\ pair[2].isActive)}

AlertIds == <<"a1", "a2">>

\* prisma.jenkinsIntegration rows
JenkinsStore ==
  << [id |-> "j1", active |-> TRUE, baseUrl |-> "http://ci-1"],
     [id |-> "j2", active |-> TRUE, baseUrl |-> "http://ci-2"],
     [id |-> "j3", active |-> FALSE, baseUrl |-> "http://ci-3"] >>

\* what getJobs answers for an integration: the flat job names
JenkinsJobs(cfg) ==
  CASE cfg = "j1" -> <<"svc-ci", "web">>
    [] cfg = "j2" -> <<"svc-ci">>
    [] OTHER -> <<>>

NoBuild == [found |-> FALSE, number |-> 0, result |-> "", hasTs |-> FALSE, timestamp |-> 0]

\* a build as lastBuild/api/json answers it; result "" is a build still running,
\* hasTs FALSE a build without numeric timestamp
Build(number, result, hasTs, timestamp) ==
  [found |-> TRUE, number |-> number, result |-> result, hasTs |-> hasTs,
   timestamp |-> timestamp]

\* a workflow run as /actions/runs answers it; tsValid FALSE is a run none of whose
\* run_started_at, updated_at, created_at is a date
GhRun(workflow, number, status, conclusion, tsValid, ts) ==
  [workflow |-> workflow, run_number |-> number, status |-> status,
   conclusion |-> conclusion, tsValid |-> tsValid, ts |-> ts]

\* the providers of the engine's scenarios: svc-ci #42 has failed on both Jenkins
\* servers, web #7 is running, and the repository has a fresh success and an older
\* failure of another workflow
DefaultFeed ==
  [svc |-> Build(42, "FAILURE", TRUE, -10),
   svc2 |-> Build(42, "FAILURE", TRUE, -10),
   web |-> Build(7, "", TRUE, -1),
   runs |-> <<GhRun(1, 5, "completed", "success", TRUE, -5),
              GhRun(2, 9, "completed", "failure", TRUE, -20)>>]

\* what /job/<name>/lastBuild/api/json answers
JenkinsLastBuild(cfg, job) ==
  CASE job = "svc-ci" /\ cfg = "j1" -> feed.svc
    [] job = "svc-ci" /\ cfg = "j2" -> feed.svc2
    [] job = "web" /\ cfg = "j1" -> feed.web
    [] OTHER -> NoBuild

\* prisma.gitHubIntegration rows
GitHubStore ==
  << [id |-> "g1", active |-> TRUE, owner |-> "acme", repo |-> "app", token |-> "t"] >>

\* what /actions/runs answers for an integration, latest run first
GitHubRuns(cfg) == IF cfg = "g1" THEN feed.runs ELSE <<>>

RECURSIVE ActiveIds(_)
\* findMany({ where: { active: true } }): the ids of the active rows, in store order
ActiveIds(rows) ==
  IF rows = <<>> THEN <<>>
  ELSE (IF Head(rows).active THEN <<Head(rows).id>> ELSE <<>>) \o ActiveIds(Tail(rows))

\* an alert lookup that forgets the isActive filter
M_ActiveAlerts(store) == AlertIds

\* prisma.alert.findMany({ where: { isActive: true } })
ActiveAlerts(store) ==
  SelectSeq(AlertIds, LAMBDA id : store[id].isActive)

\* prisma.jenkinsIntegration.findMany({ where: { active: true } })
ActiveJenkins == ActiveIds(JenkinsStore)

\* prisma.gitHubIntegration.findMany({ where: { active: true } })
ActiveGitHub == ActiveIds(GitHubStore)

GitHubRow(cfg) == CHOOSE row \in {GitHubStore[i] : i \in 1..Len(GitHubStore)} : row.id = cfg

----------------------------------------------------------------------------
(* Condition evaluation: githubService.js 326-410 *)

\* String(cond.event || 'FAILURE').toUpperCase()
EventOf(alert) == IF alert.event = "" THEN "FAILURE" ELSE alert.event

\* Number(cond.recentMinutes || 180)
RecentOf(alert) ==
  IF alert.recentMinutes = 0 THEN DefaultRecentMinutes ELSE alert.recentMinutes

\* a type test that lets every type through
M_EvaluatedType(alert) == TRUE

\* String.prototype.toLowerCase on the provider tags of the scenarios
LowerTag(w) ==
  CASE w = "Jenkins" -> "jenkins" [] w = "GITHUB" -> "github" [] OTHER -> w

\* String(cond.provider || '').toLowerCase()
ProviderOf(alert) == LowerTag(alert.provider)

\* alert.type === 'BUILD_FAILURE' || 'CUSTOM' || 'PERFORMANCE_DEGRADATION'
EvaluatedType(alert) ==
  alert.type \in {"BUILD_FAILURE", "CUSTOM", "PERFORMANCE_DEGRADATION"}

\* !provider || provider === 'jenkins'
WantsJenkins(alert) == ProviderOf(alert) \in {"", "jenkins"}

\* !provider || provider === 'github'
WantsGitHub(alert) == ProviderOf(alert) \in {"", "github"}

\* a window filter that lets every build through
M_JenkinsTooOld(last, recent, t) == FALSE

\* lastTs < cutoff, with lastTs = new Date() when the build has no numeric timestamp
JenkinsTooOld(last, recent, t) ==
  LET lastTs == IF last.hasTs THEN last.timestamp ELSE t
      cutoff == t - recent
  IN  lastTs < cutoff

\* a matches expression in which FAILURE stands for every outcome but success
M_JenkinsMatches(event, last) ==
  \/ event = "FAILURE" /\ last.result \notin {"", "SUCCESS"}
  \/ event = "SUCCESS" /\ last.result = "SUCCESS"
  \/ event = "COMPLETED" /\ last.result # ""

\* the matches expression of evaluateJenkins
JenkinsMatches(event, last) ==
  LET result == last.result
      completed == result # ""
      isFailure == result = "FAILURE"
      isSuccess == result = "SUCCESS"
  IN  \/ event = "FAILURE" /\ isFailure
      \/ event = "SUCCESS" /\ isSuccess
      \/ event = "COMPLETED" /\ completed

\* a message that leaves the build number out
M_JenkinsMessage(name, last) ==
  [tag |-> "[Jenkins]", target |-> name, number |-> 0,
   outcome |-> IF last.result = "FAILURE" THEN "failed"
               ELSE IF last.result = "SUCCESS" THEN "succeeded"
               ELSE IF last.result # "" THEN last.result ELSE "completed"]

\* `[Jenkins] ${j.name} #${last.number} ${outcome word}`
JenkinsMessage(name, last) ==
  [tag |-> "[Jenkins]", target |-> name, number |-> last.number,
   outcome |-> IF last.result = "FAILURE" THEN "failed"
               ELSE IF last.result = "SUCCESS" THEN "succeeded"
               ELSE IF last.result # "" THEN last.result ELSE "completed"]

toUpperCase(w) ==
  CASE w = "failure" -> "FAILURE" [] w = "success" -> "SUCCESS"
    [] w = "cancelled" -> "CANCELLED" [] OTHER -> w

\* !(runTs instanceof Date) || isNaN(runTs.getTime()) || runTs < cutoff
GitHubTooOld(run, recent, t) ==
  LET cutoff == t - recent IN ~run.tsValid \/ run.ts < cutoff

\* the matches expression of evaluateGitHub
GitHubMatches(event, run) ==
  LET conclusion == toUpperCase(run.conclusion)
      completed == run.status = "completed"
      isFailure == completed /\ conclusion = "FAILURE"
      isSuccess == completed /\ conclusion = "SUCCESS"
  IN  \/ event = "FAILURE" /\ isFailure
      \/ event = "SUCCESS" /\ isSuccess
      \/ event = "COMPLETED" /\ completed

\* `[GitHub] ${cfg.owner}/${cfg.repo} run #${r.run_number} ${outcome word}`
GitHubMessage(row, run) ==
  LET conclusion == toUpperCase(run.conclusion)
      completed == run.status = "completed"
  IN  [tag |-> "[GitHub]", target |-> row.owner \o "/" \o row.repo,
       number |-> run.run_number,
       outcome |-> IF completed /\ conclusion = "FAILURE" THEN "failed"
                   ELSE IF completed /\ conclusion = "SUCCESS" THEN "succeeded"
                   ELSE IF conclusion # "" THEN conclusion ELSE run.status]

NoMsg == [tag |-> "", target |-> "", number |-> 0, outcome |-> ""]

----------------------------------------------------------------------------
(* Dedup guard and history recorder: githubService.js 305-319 *)

\* prisma.alertHistory.count({ where: { alertId, message, sentAt: { gte: since } } }) > 0
\* a count of the events up to `since` instead of from it (lte for gte)
M_CountSince(h, alertId, message, since) ==
  Cardinality({i \in 1..Len(h) :
     h[i].alertId = alertId /\ h[i].message = message /\ h[i].sentAt <= since})

CountSince(h, alertId, message, since) ==
  Cardinality({i \in 1..Len(h) :
     h[i].alertId = alertId /\ h[i].message = message /\ h[i].sentAt >= since})

\* alreadySentRecently(alertId, message, minutes) at time t
alreadySentRecently(h, alertId, message, minutes, t) ==
  CountSince(h, alertId, message, t - minutes) > 0

NoQuery == [alertId |-> "", message |-> NoMsg, since |-> 0, at |-> 0]

\* a call that leaves the minutes argument out, so that the callee's default applies
M_DedupQuery(alert, message, t) ==
  [alertId |-> alert.id, message |-> message, since |-> t - DefaultDedupMinutes, at |-> t]

\* the history query of `await alreadySentRecently(alert.id, message, recent)` made at time t
DedupQuery(alert, message, t) ==
  [alertId |-> alert.id, message |-> message, since |-> t - RecentOf(alert), at |-> t]

\* a guard that never finds anything
M_DedupHit(h, q) == FALSE

\* a guard that always finds something
M_DedupHitAlways(h, q) == TRUE

\* the answer of the history store to a query
DedupHit(h, q) == CountSince(h, q.alertId, q.message, q.since) > 0

\* a row written with status TRIGGERED instead of the status passed in
M_HistoryRow(alertId, status, message, t) ==
  [alertId |-> alertId, status |-> "TRIGGERED", message |-> message, sentAt |-> t]

\* the row prisma.alertHistory.create writes; sentAt defaults to the current time
HistoryRow(alertId, status, message, t) ==
  [alertId |-> alertId, status |-> status, message |-> message, sentAt |-> t]

----------------------------------------------------------------------------
(* Notification dispatcher: githubService.js 271-303, 412-434 *)

SmtpStates == {"none", "up", "down"}   \* SMTP_HOST unset | transport delivers | transport fails
HookStates == {"up", "down"}           \* the webhook accepts the POST | the POST fails

\* a sendEmail that throws when no transport is configured
M_sendEmail(smtp) == IF smtp = "up" THEN "sent" ELSE "threw"

\* sendEmail: "skipped" (no transport), "sent", or "threw"
sendEmail(smtp) ==
  IF smtp = "none" THEN "skipped" ELSE IF smtp = "up" THEN "sent" ELSE "threw"

\* sendSlack with a webhook url: "sent" or "threw"
sendSlack(hook) == IF hook = "up" THEN "sent" ELSE "threw"

\* promise.catch((e) => logger.error(...)): a rejection becomes a logged failure
Caught(outcome) == IF outcome = "threw" THEN "failed" ELSE outcome

\* the transports are looked at only by the channels that are attempted: for a
\* channel that is not, the transport is taken to be up
Attempted(emailTo, slackUrl, smtp, hook) ==
  /\ sanitizeRecipients(emailTo) = <<>> => smtp = "up"
  /\ slackUrl = "" => hook = "up"

NoSent == [email |-> "", to |-> <<>>, slack |-> "", rejected |-> FALSE, smtp |-> "", hook |-> ""]

\* the channels awaited one after the other, with no catch
M_dispatchChannels(emailTo, slackUrl, smtp, hook) ==
  LET recips == sanitizeRecipients(emailTo)
      email == IF emailTo = <<>> THEN "none"
               ELSE IF recips = <<>> THEN "no_recipients" ELSE sendEmail(smtp)
      slack == IF slackUrl = "" THEN "none"
               ELSE IF email = "threw" THEN "not_attempted" ELSE sendSlack(hook)
  IN  [email |-> email, to |-> join(recips, <<",">>), slack |-> slack,
       rejected |-> email = "threw" \/ slack = "threw", smtp |-> smtp, hook |-> hook]

\* dispatchChannels(alert, payload) under the given transports: what each channel
\* did, and whether the returned promise rejects
dispatchChannels(emailTo, slackUrl, smtp, hook) ==
  LET recips == sanitizeRecipients(emailTo)
      email == IF emailTo = <<>> THEN "none"
               ELSE IF recips = <<>> THEN "no_recipients" ELSE Caught(sendEmail(smtp))
      slack == IF slackUrl = "" THEN "none" ELSE Caught(sendSlack(hook))
  IN  [email |-> email, to |-> join(recips, <<",">>), slack |-> slack,
       rejected |-> email = "threw" \/ slack = "threw", smtp |-> smtp, hook |-> hook]

----------------------------------------------------------------------------
(* One run of evaluateAndSendAlerts: githubService.js 436-452.  A pass      *)
(* yields at its awaits; each action below runs from one await to the next  *)
(* one that reads or writes the history, the clock or a transport.          *)

PassIds == 1..MaxPasses

\* a scheduler start without its guard
M_Schedules(s) == TRUE

\* if (scheduled) return; otherwise cron.schedule is called
Schedules(s) == ~s

\* startAlertScheduler(): the module variable afterwards.  A job that is registered
\* stays; otherwise cron.schedule registers one, or throws and leaves null.
startAlertScheduler(s, registers) == IF Schedules(s) /\ registers THEN TRUE ELSE s

\* the cron jobs one call of startAlertScheduler adds to node-cron
Registered(s, registers) == IF Schedules(s) /\ registers THEN 1 ELSE 0

\* the outcomes of a call that can fail: TRUE is success; at most MaxFaults calls fail
Outcomes == IF faults < MaxFaults THEN BOOLEAN ELSE {TRUE}

\* the number of failed calls after a step with these outcomes
Failed(ok) == IF ok THEN faults ELSE faults + 1

NoCand == [alertId |-> "", provider |-> "", cfg |-> "", target |-> "", message |-> NoMsg]

IdlePass ==
  [pc |-> "idle", kind |-> "", alerts |-> <<>>, ai |-> 0, phase |-> "",
   cfgs |-> <<>>, ci |-> 0, jobs |-> <<>>, ji |-> 0,
   cand |-> NoCand,        \* the candidate being dispatched and recorded
   q |-> NoQuery,          \* the history query of the step just taken
   sent |-> NoSent,        \* what dispatchChannels did for cand
   dispatched |-> <<>>,    \* the dispatchChannels calls of this pass, in order
   failed |-> {},          \* logger.error('Alert evaluation failed', { alertId })
   warned |-> {},          \* logger.warn('... alert evaluation failed', { integration })
   recordErrors |-> 0,     \* logger.error('Failed to record alert history')
   seen |-> {},            \* the evaluator calls and loop bodies this pass has entered
   open |-> {},            \* the loop bodies whose provider request, dispatch or history
                           \* write this pass has started and not yet awaited to its end
   rejected |-> FALSE,     \* the promise of evaluateAndSendAlerts rejected
   resp |-> "",            \* the answer of POST /alerts/trigger
   pred |-> {},            \* the passes that had finished when this one started
   h0 |-> 0]               \* the length of the history when this one started

CurAlert(r) == alerts[r.alerts[r.ai]]

\* a route that reports failure as soon as one alert's evaluation was logged as failed
M_TriggerResponse(rejected, failed) ==
  IF rejected \/ failed # {} THEN [code |-> 500, success |-> FALSE]
  ELSE [code |-> 200, success |-> TRUE]

\* router.post('/trigger'): res.json({ success: true }), or 500 when the awaited pass rejects
TriggerResponse(rejected, failed) ==
  IF rejected THEN [code |-> 500, success |-> FALSE]
  ELSE [code |-> 200, success |-> TRUE]

NoResp == [code |-> 0, success |-> FALSE]

\* the pass returns (or rejects) to its caller: the route answers, the cron callback logs
Finish(r) ==
  [r EXCEPT !.pc = "done", !.q = NoQuery, !.sent = NoSent, !.cand = NoCand,
            !.resp = IF r.kind = "trigger" THEN TriggerResponse(r.rejected, r.failed)
                     ELSE NoResp]

\* loop bodies that are started without being awaited
M_Settle(r) == r

\* the awaits of a loop body have returned or thrown: nothing of it is left running
Settle(r) == [r EXCEPT !.open = {}]

Cleared(r) == Settle([r EXCEPT !.q = NoQuery, !.sent = NoSent, !.cand = NoCand])

\* a unit of the evaluation of the current alert: the call of evaluateJenkins or
\* evaluateGitHub (cfg = "" and target = ""), the body of the loop over the
\* integrations (target = ""), the body of the loop over the jobs
Unit(r, provider, cfg, target) ==
  [alert |-> r.alerts[r.ai], provider |-> provider, cfg |-> cfg, target |-> target]

\* the pass enters a unit
Enter(r, provider, cfg, target) ==
  [r EXCEPT !.seen = @ \cup {Unit(r, provider, cfg, target)}]

\* the pass enters a loop body that begins with a provider request
Request(r, provider, cfg, target) ==
  [Enter(r, provider, cfg, target) EXCEPT !.open = @ \cup {Unit(r, provider, cfg, target)}]

RECURSIVE Resume(_)
\* the synchronous code a pass runs between two awaits: loop tests, the type and
\* provider tests, and the returns of evaluateJenkins and evaluateGitHub.  The
\* result waits at the next await, or is done.
Resume(r) ==
  CASE r.pc = "alert" ->
         IF r.ai > Len(r.alerts) THEN Finish(r)
         ELSE LET a == CurAlert(r) IN
              IF ~EvaluatedType(a) \/ ~(WantsJenkins(a) \/ WantsGitHub(a))
                THEN Resume([r EXCEPT !.ai = @ + 1])
              ELSE IF WantsJenkins(a)
                THEN Enter([r EXCEPT !.pc = "jenkins"], "jenkins", "", "")
              ELSE Enter([r EXCEPT !.pc = "github"], "github", "", "")
    [] r.pc = "jcfg" ->
         IF r.ci > Len(r.cfgs)
           THEN IF WantsGitHub(CurAlert(r))
                  THEN Enter([r EXCEPT !.pc = "github", !.phase = "", !.cfgs = <<>>, !.ci = 0],
                             "github", "", "")
                  ELSE Resume([r EXCEPT !.pc = "alert", !.ai = @ + 1, !.phase = "",
                                        !.cfgs = <<>>, !.ci = 0])
           ELSE IF CurAlert(r).jenkinsJob # ""
             THEN Request(Enter([r EXCEPT !.pc = "jjob", !.jobs = <<CurAlert(r).jenkinsJob>>,
                                          !.ji = 1],
                                "jenkins", r.cfgs[r.ci], ""),
                          "jenkins", r.cfgs[r.ci], CurAlert(r).jenkinsJob)
             ELSE Request([r EXCEPT !.pc = "jobs"], "jenkins", r.cfgs[r.ci], "")
    [] r.pc = "jjob" ->
         IF r.ji > Len(r.jobs)
           THEN Resume([r EXCEPT !.pc = "jcfg", !.ci = @ + 1, !.jobs = <<>>, !.ji = 0])
           ELSE Request(r, "jenkins", r.cfgs[r.ci], r.jobs[r.ji])
    [] r.pc = "gcfg" ->
         IF r.ci > Len(r.cfgs)
           THEN Resume([r EXCEPT !.pc = "alert", !.ai = @ + 1, !.phase = "",
                                 !.cfgs = <<>>, !.ci = 0])
           ELSE Request(r, "github", r.cfgs[r.ci], "")
    [] OTHER -> r

\* continue with the next job of the integration
NextJob(r) == Resume([Cleared(r) EXCEPT !.pc = "jjob", !.ji = @ + 1])

\* a loop over the integrations without its try/catch: what is thrown in the body
\* reaches the catch of the loop over the alerts
M_NextCfg(r) ==
  IF r.warned # {}
    THEN Resume([Cleared(r) EXCEPT !.pc = "alert", !.ai = @ + 1, !.phase = "", !.cfgs = <<>>,
                                   !.ci = 0, !.jobs = <<>>, !.ji = 0,
                                   !.failed = @ \cup {r.alerts[r.ai]}])
    ELSE Resume([Cleared(r) EXCEPT !.pc = IF r.phase = "jenkins" THEN "jcfg" ELSE "gcfg",
                                   !.ci = @ + 1, !.jobs = <<>>, !.ji = 0])

\* continue with the next integration (also the catch of the loop body)
NextCfg(r) ==
  Resume([Cleared(r) EXCEPT !.pc = IF r.phase = "jenkins" THEN "jcfg" ELSE "gcfg",
                            !.ci = @ + 1, !.jobs = <<>>, !.ji = 0])

\* a loop over the alerts whose catch raises the error again
M_NextAlert(r) ==
  IF r.failed # {}
    THEN Finish([Cleared(r) EXCEPT !.rejected = TRUE])
    ELSE Resume([Cleared(r) EXCEPT !.pc = "alert", !.ai = @ + 1, !.phase = "", !.cfgs = <<>>,
                                   !.ci = 0, !.jobs = <<>>, !.ji = 0])

\* continue with the next alert (also the catch of the loop body)
NextAlert(r) ==
  Resume([Cleared(r) EXCEPT !.pc = "alert", !.ai = @ + 1, !.phase = "", !.cfgs = <<>>,
                            !.ci = 0, !.jobs = <<>>, !.ji = 0])

\* evaluateAndSendAlerts is called; prisma.alert.findMany answers or throws
\* a start that waits until no other pass is running
M_MayStart(p) ==
  /\ pass[p].pc = "idle"
  /\ \A o \in PassIds : pass[o].pc \in {"idle", "done"}

\* the cron callback and the route call evaluateAndSendAlerts() whatever other
\* passes are doing; a pass of the model is run once
MayStart(p) == pass[p].pc = "idle"

\* evaluateAndSendAlerts() is called: pass p up to the await after its alert lookup
Begun(p, kind, dbOk) ==
  LET r == [pass[p] EXCEPT !.kind = kind, !.h0 = Len(history),
                           !.pred = {o \in PassIds : pass[o].pc = "done"}]
  IN  IF dbOk
        THEN Resume([r EXCEPT !.pc = "alert", !.alerts = ActiveAlerts(alerts), !.ai = 1])
        ELSE Finish([r EXCEPT !.rejected = TRUE])

StartPass(p, kind) ==
  /\ MayStart(p)
  /\ (p > 1) => pass[p - 1].pc # "idle"
  /\ (kind = "tick") => scheduled
  /\ \E dbOk \in Outcomes :
       /\ pass' = [pass EXCEPT ![p] = Begun(p, kind, dbOk)]
       /\ faults' = Failed(dbOk)
  /\ UNCHANGED <<alerts, now, ticks, history, calls, queried, scheduled, testOut, boot, feed, pureVars>>

\* the cron callback registered by startAlertScheduler fires
CronTick(p) == StartPass(p, "tick")

\* router.post('/trigger')
Trigger(p) == StartPass(p, "trigger")

\* evaluateJenkins begins: the integration lookup (which may throw into the per-alert catch)
JenkinsBegin(p) ==
  LET r == pass[p] a == CurAlert(r) IN
  /\ r.pc = "jenkins"
  /\ \E dbOk \in Outcomes :
       /\ pass' = [pass EXCEPT ![p] =
            IF dbOk
              THEN Resume([r EXCEPT !.pc = "jcfg", !.phase = "jenkins",
                                    !.cfgs = ActiveJenkins, !.ci = 1])
              ELSE NextAlert([r EXCEPT !.failed = @ \cup {a.id}])]
       /\ faults' = Failed(dbOk)
  /\ UNCHANGED <<alerts, now, ticks, history, calls, queried, scheduled, testOut, boot, feed, pureVars>>

\* an integration of evaluateJenkins with no job named in the conditions: getJobs
GetJobs(p) ==
  LET r == pass[p] a == CurAlert(r) IN
  /\ r.pc = "jobs"
  /\ \E ok \in Outcomes :
       /\ pass' = [pass EXCEPT ![p] =
            IF ok
              THEN Resume([Settle(r) EXCEPT !.pc = "jjob", !.jobs = JenkinsJobs(r.cfgs[r.ci]),
                                            !.ji = 1])
              ELSE NextCfg([r EXCEPT !.warned = @ \cup {<<a.id, r.cfgs[r.ci]>>}])]
       /\ calls' = calls \cup {<<a.id, "jenkins">>}
       /\ faults' = Failed(ok)
  /\ UNCHANGED <<alerts, now, ticks, history, queried, scheduled, testOut, boot, feed, pureVars>>

\* one job of the job loop: getLastBuild, the window filter, the event test and the dedup query
JenkinsJob(p) ==
  LET r == pass[p] IN
  /\ r.pc = "jjob"
  /\ \E fetchOk \in Outcomes, queryOk \in Outcomes :
            LET a == CurAlert(r)
                cfg == r.cfgs[r.ci]
                name == r.jobs[r.ji]
                last == IF fetchOk THEN JenkinsLastBuild(cfg, name) ELSE NoBuild
                candidate == /\ last.found
                             /\ ~JenkinsTooOld(last, RecentOf(a), now)
                             /\ JenkinsMatches(EventOf(a), last)
                message == JenkinsMessage(name, last)
                query == DedupQuery(a, message, now)
            IN  /\ ~candidate => queryOk    \* no query is made, so none fails
                /\ calls' = calls \cup {<<a.id, "jenkins">>}
                /\ queried' = IF candidate THEN queried \cup {a.id} ELSE queried
                /\ faults' = Failed(fetchOk /\ queryOk)
                /\ pass' = [pass EXCEPT ![p] =
                     IF ~candidate THEN NextJob(r)
                     ELSE IF ~queryOk
                       THEN [NextCfg([r EXCEPT !.warned = @ \cup {<<a.id, cfg>>}]) EXCEPT !.q = query]
                     ELSE IF DedupHit(history, query)
                       THEN [NextJob(r) EXCEPT !.q = query]
                     ELSE [r EXCEPT !.pc = "dispatch", !.q = query, !.sent = NoSent,
                             !.cand = [alertId |-> a.id, provider |-> "jenkins", cfg |-> cfg,
                                       target |-> name, message |-> message]]]
  /\ UNCHANGED <<alerts, now, ticks, history, scheduled, testOut, boot, feed, pureVars>>

\* evaluateGitHub begins: the integration lookup (which may throw into the per-alert catch)
GitHubBegin(p) ==
  LET r == pass[p] a == CurAlert(r) IN
  /\ r.pc = "github"
  /\ \E dbOk \in Outcomes :
       /\ pass' = [pass EXCEPT ![p] =
            IF dbOk
              THEN Resume([r EXCEPT !.pc = "gcfg", !.phase = "github", !.cfgs = ActiveGitHub, !.ci = 1])
              ELSE NextAlert([r EXCEPT !.failed = @ \cup {a.id}])]
       /\ faults' = Failed(dbOk)
  /\ UNCHANGED <<alerts, now, ticks, history, calls, queried, scheduled, testOut, boot, feed, pureVars>>

\* one integration of evaluateGitHub: listWorkflowRuns, the latest run, the window
\* filter, the event test and the dedup query
GitHubCfg(p) ==
  LET r == pass[p] IN
  /\ r.pc = "gcfg"
  /\ \E fetchOk \in Outcomes, queryOk \in Outcomes :
            LET a == CurAlert(r)
                cfg == r.cfgs[r.ci]
                list == IF fetchOk THEN GitHubRuns(cfg) ELSE <<>>
                run == list[1]
                candidate == /\ list # <<>>
                             /\ ~GitHubTooOld(run, RecentOf(a), now)
                             /\ GitHubMatches(EventOf(a), run)
                message == GitHubMessage(GitHubRow(cfg), run)
                query == DedupQuery(a, message, now)
            IN  /\ ~candidate => queryOk    \* no query is made, so none fails
                /\ calls' = calls \cup {<<a.id, "github">>}
                /\ queried' = IF candidate THEN queried \cup {a.id} ELSE queried
                /\ faults' = Failed(fetchOk /\ queryOk)
                /\ pass' = [pass EXCEPT ![p] =
                     IF ~fetchOk THEN NextCfg([r EXCEPT !.warned = @ \cup {<<a.id, cfg>>}])
                     ELSE IF ~candidate THEN NextCfg(r)
                     ELSE IF ~queryOk
                       THEN [NextCfg([r EXCEPT !.warned = @ \cup {<<a.id, cfg>>}]) EXCEPT !.q = query]
                     ELSE IF DedupHit(history, query)
                       THEN [NextCfg(r) EXCEPT !.q = query]
                     ELSE [r EXCEPT !.pc = "dispatch", !.q = query, !.sent = NoSent,
                             !.cand = [alertId |-> a.id, provider |-> "github", cfg |-> cfg,
                                       target |-> message.target, message |-> message]]]
  /\ UNCHANGED <<alerts, now, ticks, history, scheduled, testOut, boot, feed, pureVars>>

\* await dispatchChannels(alert, payload): both channel promises settle
Dispatch(p) ==
  LET r == pass[p] a == CurAlert(r) IN
  /\ r.pc = "dispatch"
  /\ \E smtp \in SmtpStates, hook \in HookStates :
       LET out == dispatchChannels(a.emailTo, a.slackUrl, smtp, hook)
           r1 == [r EXCEPT !.dispatched = Append(@, r.cand), !.q = NoQuery]
           outage == smtp = "down" \/ hook = "down"
       IN  /\ Attempted(a.emailTo, a.slackUrl, smtp, hook)
           /\ (~outage) \in Outcomes
           /\ faults' = Failed(~outage)
           /\ pass' = [pass EXCEPT ![p] =
                IF out.rejected
                  THEN [NextCfg([r1 EXCEPT !.warned = @ \cup {<<a.id, r.cand.cfg>>}])
                          EXCEPT !.sent = out]
                  ELSE [r1 EXCEPT !.pc = "record", !.sent = out]]
  /\ UNCHANGED <<alerts, now, ticks, history, calls, queried, scheduled, testOut, boot, feed, pureVars>>

\* a create that replaces the latest event of the same alert and message
M_AlertHistoryCreate(h, row) ==
  IF \E i \in 1..Len(h) : h[i].alertId = row.alertId /\ h[i].message = row.message
    THEN LET i == CHOOSE k \in 1..Len(h) :
                    /\ h[k].alertId = row.alertId /\ h[k].message = row.message
                    /\ \A m \in (k + 1)..Len(h) :
                         ~(h[m].alertId = row.alertId /\ h[m].message = row.message)
         IN  [h EXCEPT ![i] = row]
    ELSE Append(h, row)

\* prisma.alertHistory.create({ data }): one row more, the others as they were
AlertHistoryCreate(h, row) == Append(h, row)

\* a recordHistory without its try/catch: the failure of the create is thrown
M_recordHistory(h, row, dbOk) ==
  [history |-> IF dbOk THEN AlertHistoryCreate(h, row) ELSE h,
   logged |-> FALSE, threw |-> ~dbOk]

\* recordHistory({ alertId, status, message }): the history afterwards, whether the
\* failure of the create was logged, and whether the returned promise rejects
recordHistory(h, row, dbOk) ==
  [history |-> IF dbOk THEN AlertHistoryCreate(h, row) ELSE h,
   logged |-> ~dbOk, threw |-> FALSE]

\* a status that follows the channels
M_EventStatus(sent) ==
  IF sent.email = "failed" \/ sent.slack = "failed" THEN "FAILED" ELSE "SENT"

\* the status the evaluators pass to recordHistory: the literal 'SENT', whatever
\* dispatchChannels did
EventStatus(sent) == "SENT"

\* await recordHistory({ alertId, status: 'SENT', message }) as the last statement of
\* the loop body: the loop goes on, or what recordHistory throws reaches the catch of
\* the integration.  cand and sent stay until the next step of the pass.
\* a write that is awaited and leaves the history as it was
M_Written(h, rec) == h

\* the history after await recordHistory(...) has returned
Written(h, rec) == rec.history

Record(p) ==
  LET r == pass[p] IN
  /\ r.pc = "record"
  /\ \E dbOk \in Outcomes :
       LET rec == recordHistory(history,
                                HistoryRow(r.cand.alertId, EventStatus(r.sent),
                                           r.cand.message, now), dbOk)
           r1 == [r EXCEPT !.recordErrors = IF rec.logged THEN @ + 1 ELSE @]
           r2 == IF rec.threw
                   THEN NextCfg([r1 EXCEPT !.warned = @ \cup {<<r.cand.alertId, r.cand.cfg>>}])
                 ELSE IF r.phase = "jenkins" THEN NextJob(r1) ELSE NextCfg(r1)
       IN  /\ history' = Written(history, rec)
           /\ pass' = [pass EXCEPT ![p] = [r2 EXCEPT !.cand = r.cand, !.sent = r.sent]]
           /\ faults' = Failed(dbOk)
  /\ UNCHANGED <<alerts, now, ticks, calls, queried, scheduled, testOut, boot, feed, pureVars>>

----------------------------------------------------------------------------
(* Scheduler, clock and the test route *)

\* startAlertScheduler: githubService.js 454-467
StartAlertScheduler ==
  /\ pass[1].pc = "idle"
  /\ \E registers \in BOOLEAN :
       /\ scheduled' = startAlertScheduler(scheduled, registers)
       /\ boot' = [boot EXCEPT !.jobs = @ + Registered(scheduled, registers)]
  /\ scheduled' # scheduled
  /\ UNCHANGED <<alerts, now, ticks, history, pass, calls, queried, faults, testOut, feed, pureVars>>

TickSteps == {115}

\* time passes
Tick ==
  /\ ticks < MaxTicks
  /\ \E d \in TickSteps : now' = now + d
  /\ ticks' = ticks + 1
  /\ UNCHANGED <<alerts, history, pass, calls, queried, faults, scheduled, testOut, boot, feed, pureVars>>

\* the channels bodies POST /alerts/test is called with
TestChannels ==
  { [emailTo |-> To_ok, slackUrl |-> "https://hooks/x"],
    [emailTo |-> To_blocked, slackUrl |-> "https://hooks/x"],
    [emailTo |-> To_ok, slackUrl |-> ""],
    [emailTo |-> To_none, slackUrl |-> ""] }

NoTest == [code |-> 0, success |-> FALSE, alertId |-> "", sent |-> NoSent]

\* a test route that records what it sent
M_SendTest ==
  /\ testOut = NoTest
  /\ \E ch \in TestChannels, smtp \in SmtpStates, hook \in HookStates :
       LET out == dispatchChannels(ch.emailTo, ch.slackUrl, smtp, hook) IN
       /\ Attempted(ch.emailTo, ch.slackUrl, smtp, hook)
       /\ testOut' = [code |-> IF out.rejected THEN 500 ELSE 200, success |-> ~out.rejected,
                      alertId |-> "test", sent |-> out]
  /\ history' = Append(history, HistoryRow("test", "SENT", NoMsg, now))
  /\ UNCHANGED <<alerts, now, ticks, pass, calls, queried, faults, scheduled, boot, feed, pureVars>>

\* router.post('/test'): dispatchChannels for the fake alert { id: 'test', channels };
\* one call of the route is observed
SendTest ==
  /\ testOut = NoTest
  /\ \E ch \in TestChannels, smtp \in SmtpStates, hook \in HookStates :
       LET out == dispatchChannels(ch.emailTo, ch.slackUrl, smtp, hook) IN
       /\ Attempted(ch.emailTo, ch.slackUrl, smtp, hook)
       /\ testOut' = [code |-> IF out.rejected THEN 500 ELSE 200, success |-> ~out.rejected,
                      alertId |-> "test", sent |-> out]
  /\ UNCHANGED <<alerts, now, ticks, history, pass, calls, queried, faults, scheduled, boot, feed, pureVars>>

----------------------------------------------------------------------------
(* The engine *)

\* an environment variable: not set, or set to a string
Unset == [set |-> FALSE, value |-> ""]
EnvString(v) == [set |-> TRUE, value |-> v]

\* process.env.NAME || fallback: unset and the empty string are falsy
OrDefault(e, fallback) == IF ~e.set \/ e.value = "" THEN fallback ELSE e.value

\* a scheduler that is started only on ALERTS_ENABLED=true
M_AlertsEnabled(e) == e.set /\ e.value = "true"

\* (process.env.ALERTS_ENABLED || 'true') !== 'false'
AlertsEnabled(e) == OrDefault(e, "true") # "false"

\* the server process before the listen callback has run
\* starts counts the calls of startAlertScheduler, jobs the cron jobs registered with
\* node-cron, fired the callbacks the last cron instant has invoked
NotBooted(e) == [env |-> e, listening |-> FALSE, starts |-> 0, jobs |-> 0, fired |-> 0]

\* no stand-alone call of getJobs or of workflowsSummary
NoJobsIn == <<>>
NoJobsOut == [done |-> FALSE, list |-> <<>>]
NoRunsIn == <<>>
\* no link has been handed to the adapter
NoLinkIn == [of |-> "", url |-> [kind |-> "absent", origin |-> "", path |-> <<>>, search |-> "", hash |-> ""],
             baseURL |-> [kind |-> "absent", origin |-> "", path |-> <<>>, search |-> "", hash |-> ""]]
NoLinkOut == [done |-> FALSE, url |-> [kind |-> "absent", origin |-> "", path |-> <<>>, search |-> "", hash |-> ""]]

NoSumOut == [done |-> FALSE, list |-> <<>>]

NoSan == [done |-> FALSE, list |-> <<>>, again |-> <<>>]
NoSanIn == [tokens |-> <<>>, seps |-> <<>>, edge |-> <<>>]

Init ==
  /\ alerts \in {[id \in {"a1", "a2"} |-> IF id = "a1" THEN pair[1] ELSE pair[2]] :
                   pair \in AlertPairs}
  /\ now = 0
  /\ ticks = 0
  /\ history = <<>>
  /\ pass = [p \in PassIds |-> IdlePass]
  /\ calls = {}
  /\ queried = {}
  /\ faults = 0
  /\ scheduled = FALSE
  /\ testOut = NoTest
  /\ boot = NotBooted(Unset)
  /\ feed = DefaultFeed
  /\ sanIn = NoSanIn
  /\ sanOut = NoSan
  /\ jobsIn = NoJobsIn
  /\ jobsOut = NoJobsOut
  /\ runsIn = NoRunsIn
  /\ sumOut = NoSumOut
  /\ linkIn = NoLinkIn
  /\ linkOut = NoLinkOut

PassStep(p) ==
  \/ CronTick(p)
  \/ Trigger(p)
  \/ JenkinsBegin(p)
  \/ GetJobs(p)
  \/ JenkinsJob(p)
  \/ GitHubBegin(p)
  \/ GitHubCfg(p)
  \/ Dispatch(p)
  \/ Record(p)

Next ==
  \/ \E p \in PassIds : PassStep(p)
  \/ StartAlertScheduler
  \/ Tick

Spec == Init /\ [][Next]_vars

----------------------------------------------------------------------------
(* The test route next to one evaluation pass *)

\* the values of ALERTS_ENABLED a server is started with
EnvValues ==
  {Unset, EnvString(""), EnvString("false"), EnvString("true"), EnvString("FALSE"),
   EnvString("0")}

\* a server process at its start, for every value of ALERTS_ENABLED
BootInit ==
  /\ alerts \in {[id \in {"a1", "a2"} |-> IF id = "a1" THEN pair[1] ELSE pair[2]] :
                   pair \in AlertPairs}
  /\ now = 0
  /\ ticks = 0
  /\ history = <<>>
  /\ pass = [p \in PassIds |-> IdlePass]
  /\ calls = {}
  /\ queried = {}
  /\ faults = 0
  /\ scheduled = FALSE
  /\ testOut = NoTest
  /\ boot \in {NotBooted(e) : e \in EnvValues}
  /\ feed = DefaultFeed
  /\ sanIn = NoSanIn
  /\ sanOut = NoSan
  /\ jobsIn = NoJobsIn
  /\ jobsOut = NoJobsOut
  /\ runsIn = NoRunsIn
  /\ sumOut = NoSumOut
  /\ linkIn = NoLinkIn
  /\ linkOut = NoLinkOut

\* the callback of server.listen: the scheduler is started unless ALERTS_ENABLED
\* is 'false'
Listen ==
  /\ ~boot.listening
  /\ IF AlertsEnabled(boot.env)
       THEN \E registers \in BOOLEAN :
               /\ scheduled' = startAlertScheduler(scheduled, registers)
               /\ boot' = [boot EXCEPT !.listening = TRUE, !.starts = @ + 1,
                                       !.jobs = @ + Registered(scheduled, registers)]
       ELSE /\ scheduled' = scheduled
            /\ boot' = [boot EXCEPT !.listening = TRUE]
  /\ UNCHANGED <<alerts, now, ticks, history, pass, calls, queried, faults, testOut, feed, pureVars>>

\* the requests and the cron ticks a listening server gets
Serve == boot.listening /\ PassStep(1)

BootNext ==
  \/ Listen
  \/ Serve
  \/ Tick

BootSpec == BootInit /\ [][BootNext]_vars

\* the provider calls are made without timeout: a call that never returns leaves
\* the pass at its await for ever
Hang(p) ==
  /\ pass[p].pc \in {"jobs", "jjob", "gcfg"}
  /\ pass' = [pass EXCEPT ![p].pc = "hung"]
  /\ UNCHANGED <<alerts, now, ticks, history, calls, queried, faults, scheduled, testOut, boot,
                 feed, pureVars>>

\* the engine with calls that succeed, take their time, or never return
\* the values of the enum AlertType, and the provider tags of the tag scenarios
AlertTypes ==
  {"BUILD_FAILURE", "DEPLOYMENT_FAILURE", "PERFORMANCE_DEGRADATION", "SECURITY_ISSUE", "CUSTOM"}
ProviderTags == {"", "jenkins", "github", "gitlab", "Jenkins", "GITHUB"}

\* active alerts of every type with every provider tag
TagAlerts ==
  {[BaseAlert("a1") EXCEPT !.type = t, !.provider = tag, !.slackUrl = ""] :
     t \in AlertTypes, tag \in ProviderTags}

\* one alert of any type and tag next to an inactive one; no call fails
TagInit ==
  /\ alerts \in {[id \in {"a1", "a2"} |->
                    IF id = "a1" THEN a ELSE [BaseAlert("a2") EXCEPT !.isActive = FALSE]] :
                   a \in TagAlerts}
  /\ now = 0
  /\ ticks = 0
  /\ history = <<>>
  /\ pass = [p \in PassIds |-> IdlePass]
  /\ calls = {}
  /\ queried = {}
  /\ faults = MaxFaults
  /\ scheduled = FALSE
  /\ testOut = NoTest
  /\ boot = NotBooted(Unset)
  /\ feed = DefaultFeed
  /\ sanIn = NoSanIn
  /\ sanOut = NoSan
  /\ jobsIn = NoJobsIn
  /\ jobsOut = NoJobsOut
  /\ runsIn = NoRunsIn
  /\ sumOut = NoSumOut
  /\ linkIn = NoLinkIn
  /\ linkOut = NoLinkOut

LiveInit ==
  /\ alerts \in {[id \in {"a1", "a2"} |-> IF id = "a1" THEN pair[1] ELSE pair[2]] :
                   pair \in AlertPairs}
  /\ now = 0
  /\ ticks = 0
  /\ history = <<>>
  /\ pass = [p \in PassIds |-> IdlePass]
  /\ calls = {}
  /\ queried = {}
  /\ faults = MaxFaults
  /\ scheduled = FALSE
  /\ testOut = NoTest
  /\ boot = NotBooted(Unset)
  /\ feed = DefaultFeed
  /\ sanIn = NoSanIn
  /\ sanOut = NoSan
  /\ jobsIn = NoJobsIn
  /\ jobsOut = NoJobsOut
  /\ runsIn = NoRunsIn
  /\ sumOut = NoSumOut
  /\ linkIn = NoLinkIn
  /\ linkOut = NoLinkOut

LiveNext ==
  \/ \E p \in PassIds : PassStep(p)
  \/ \E p \in PassIds : Hang(p)
  \/ StartAlertScheduler

\* a request or a tick arrives for every pass of the model, and a pass whose await
\* has settled is resumed by the event loop
LiveFair == \A p \in PassIds : WF_vars(PassStep(p))

LiveSpec == LiveInit /\ [][LiveNext]_vars /\ LiveFair

\* the builds and runs the providers may serve: every outcome, and timestamps
\* inside the window, at and behind its edge, in the future, and missing
FeedResults == {"FAILURE", "SUCCESS", "ABORTED", ""}
FeedStamps == {<<TRUE, -10>>, <<TRUE, -120>>, <<TRUE, -121>>, <<TRUE, -200>>, <<TRUE, 5>>,
               <<FALSE, 0>>}
FeedRunStates == {<<"completed", "success">>, <<"completed", "failure">>,
                  <<"completed", "cancelled">>, <<"in_progress", "">>}
FeedRunStamps == {<<TRUE, -5>>, <<TRUE, -121>>, <<TRUE, 5>>, <<FALSE, 0>>}

Feeds ==
  {[DefaultFeed EXCEPT !.svc = Build(42, res, st[1], st[2]), !.svc2 = other] :
      res \in FeedResults, st \in FeedStamps,
      other \in {Build(42, "FAILURE", TRUE, -10), Build(43, "FAILURE", TRUE, -10)}}
    \cup {[DefaultFeed EXCEPT !.runs = <<GhRun(1, 5, rs[1], rs[2], st[1], st[2])>> \o @] :
             rs \in FeedRunStates, st \in FeedRunStamps}
    \cup {[DefaultFeed EXCEPT !.runs = <<>>]}

\* the alerts of the feed scenarios: every event, with and without recentMinutes,
\* for both providers or one
FeedAlerts ==
  {[BaseAlert("a1") EXCEPT !.event = e, !.recentMinutes = m, !.provider = pr] :
     e \in {"", "SUCCESS", "COMPLETED"}, m \in {120, 0}, pr \in {"", "jenkins", "github"}}

\* one alert, any feed, and a history that is empty or holds an event from long ago
FeedInit ==
  /\ alerts \in {[id \in {"a1", "a2"} |->
                    IF id = "a1" THEN a ELSE [BaseAlert(id) EXCEPT !.isActive = FALSE]] :
                   a \in FeedAlerts}
  /\ feed \in Feeds
  /\ now = 0
  /\ ticks = 0
  /\ history \in {<<>>, <<HistoryRow("a1", "SENT", JenkinsMessage("svc-ci", feed.svc), -300)>>}
  /\ pass = [p \in PassIds |-> IdlePass]
  /\ calls = {}
  /\ queried = {}
  /\ faults = MaxFaults
  /\ scheduled = FALSE
  /\ testOut = NoTest
  /\ boot = NotBooted(Unset)
  /\ sanIn = NoSanIn
  /\ sanOut = NoSan
  /\ jobsIn = NoJobsIn
  /\ jobsOut = NoJobsOut
  /\ runsIn = NoRunsIn
  /\ sumOut = NoSumOut
  /\ linkIn = NoLinkIn
  /\ linkOut = NoLinkOut

FeedNext ==
  \/ PassStep(1)
  \/ StartAlertScheduler

FeedSpec == FeedInit /\ [][FeedNext]_vars

TestNext ==
  \/ SendTest
  \/ PassStep(1)
  \/ StartAlertScheduler
  \/ Tick

TestSpec == Init /\ [][TestNext]_vars

----------------------------------------------------------------------------
(* sanitizeRecipients on its own *)

Lex_ok == To_ok
Lex_upper == <<"A", "@", "B", ".", "C", "O", "M">>
Lex_word == <<"n", "o", "t", "-", "a", "n", "-", "e", "m", "a", "i", "l">>
Lex_test == To_blocked
Lex_dev == <<"d", "e", "v", "@", "l", "o", "c", "a", "l">> \o Str_test
Lex_local == <<"m", "@", "d">> \o Str_local
Lex_nodot == <<"a", "@", "b">>
Lex_twoats == <<"a", "@", "@", "b">> \o Str_com

Lexemes == {Lex_ok, Lex_upper, Lex_word, Lex_test, Lex_dev, Lex_local, Lex_nodot, Lex_twoats}

\* the separators written between two tokens, and the text around the list
Separators == {<<",", " ">>, <<";">>, <<" ", "\n">>}
Edges == {<<>>, <<" ">>}

TokenLists == UNION {[1..n -> Lexemes] : n \in 0..MaxTokens}

\* the text of a recipient list
RawOf(in) == in.edge \o join(in.tokens, in.seps) \o in.edge

SanInit ==
  /\ sanIn \in {[tokens |-> t, seps |-> sp, edge |-> e] :
                  t \in TokenLists, sp \in Separators, e \in Edges}
  /\ sanOut = NoSan
  /\ alerts = [id \in {"a1", "a2"} |-> [BaseAlert(id) EXCEPT !.isActive = FALSE]]
  /\ now = 0
  /\ ticks = 0
  /\ history = <<>>
  /\ pass = [p \in PassIds |-> IdlePass]
  /\ calls = {}
  /\ queried = {}
  /\ faults = 0
  /\ scheduled = FALSE
  /\ testOut = NoTest
  /\ boot = NotBooted(Unset)
  /\ feed = DefaultFeed
  /\ jobsIn = NoJobsIn
  /\ jobsOut = NoJobsOut
  /\ runsIn = NoRunsIn
  /\ sumOut = NoSumOut
  /\ linkIn = NoLinkIn
  /\ linkOut = NoLinkOut

\* sanitizeRecipients(input), and sanitizeRecipients(result.join(','))
Sanitize ==
  /\ ~sanOut.done
  /\ LET list == sanitizeRecipients(RawOf(sanIn)) IN
     sanOut' = [done |-> TRUE, list |-> list,
                again |-> sanitizeRecipients(join(list, <<",">>))]
  /\ UNCHANGED <<engineVars, sanIn, jobVars, sumVars, linkVars>>

SanNext == Sanitize

SanSpec == SanInit /\ [][SanNext]_vars

----------------------------------------------------------------------------
(* Jenkins job listing: socketService.js 182-211, called on its own *)

\* the alert engine at rest, with no active alert
EngineAtRest ==
  /\ alerts = [id \in {"a1", "a2"} |-> [BaseAlert(id) EXCEPT !.isActive = FALSE]]
  /\ now = 0
  /\ ticks = 0
  /\ history = <<>>
  /\ pass = [p \in PassIds |-> IdlePass]
  /\ calls = {}
  /\ queried = {}
  /\ faults = 0
  /\ scheduled = FALSE
  /\ testOut = NoTest
  /\ boot = NotBooted(Unset)
  /\ feed = DefaultFeed

\* how many items a folder of the model holds at most
MaxItems == 2

\* _class values, cut into pieces of which 'Folder' is one; <<>> is an item
\* without _class
Cls_Folder == <<"com.cloudbees.hudson.plugins.folder.", "Folder">>
Cls_OrgFolder == <<"jenkins.branch.", "Organization", "Folder">>
Cls_FreeStyle == <<"hudson.model.", "FreeStyle", "Project">>
Cls_None == <<>>

\* String.prototype.includes: w is a run of consecutive pieces of s
includes(s, w) == \E i \in 0..(Len(s) - Len(w)) : SubSeq(s, i + 1, i + Len(w)) = w

\* an item of the server: its name, its _class and, for a folder, its items
Item(name, class, jobs) == [name |-> name, class |-> class, jobs |-> jobs]

\* the lists of at most MaxItems items with different names
Listings(items) ==
  {l \in {<<>>} \cup {<<x>> : x \in items}
                \cup {p \in {<<x, y>> : x \in items, y \in items} : p[1].name # p[2].name} :
     Len(l) <= MaxItems}

PlainJobs == {Item(n, c, <<>>) : n \in {"job1", "job2"}, c \in {Cls_FreeStyle, Cls_None}}
InnerFolders == {Item("B", c, l) : c \in {Cls_Folder, Cls_OrgFolder}, l \in Listings(PlainJobs)}
OuterFolders ==
  {Item("A", c, l) : c \in {Cls_Folder, Cls_OrgFolder},
                     l \in Listings(PlainJobs \cup InnerFolders)}

\* the servers of the model, by the items at the top: nothing, a job, a folder, or
\* a folder and a job
JobTrees ==
  {l \in {<<>>} \cup {<<x>> : x \in PlainJobs \cup OuterFolders}
                \cup {<<x, y>> : x \in OuterFolders, y \in PlainJobs} : Len(l) <= MaxItems}

\* the tree A/B/job1, A/job2
ExampleTree ==
  <<Item("A", Cls_Folder,
         <<Item("B", Cls_Folder, <<Item("job1", Cls_FreeStyle, <<>>)>>),
           Item("job2", Cls_FreeStyle, <<>>)>>)>>

RECURSIVE listJobsAt(_, _)
\* GET <path>/api/json?tree=jobs[name,url,color,_class]: the items of the folder at
\* the path, the path being the names after each 'job/'
listJobsAt(items, path) ==
  IF path = <<>> THEN items
  ELSE LET hit == SelectSeq(items, LAMBDA j : j.name = Head(path))
       IN  IF hit = <<>> THEN <<>> ELSE listJobsAt(hit[1].jobs, Tail(path))

\* j._class && j._class.includes('Folder')
isFolder(j) == j.class # <<>> /\ includes(j.class, <<"Folder">>)

\* a display name that drops the folders
M_displayName(prefix, name) == <<name>>

\* prefix ? `${prefix}/${j.name}` : j.name
displayName(prefix, name) == IF prefix = <<>> THEN <<name>> ELSE prefix \o <<"/", name>>

\* normalizeJob({ name, url, color }, baseURL): the name is kept
normalizeJob(name) == [name |-> name]

RECURSIVE flattenJobs(_, _, _)
RECURSIVE FlattenItems(_, _, _, _)
\* the loop of flattenJobs over the items it was served
FlattenItems(server, items, basePath, prefix) ==
  IF items = <<>> THEN <<>>
  ELSE LET j == Head(items)
           name == displayName(prefix, j.name)
       IN  (IF isFolder(j)
              THEN flattenJobs(server, Append(basePath, j.name), name)
              ELSE <<normalizeJob(name)>>)
           \o FlattenItems(server, Tail(items), basePath, prefix)

\* flattenJobs(basePath, prefix, override) against a server
flattenJobs(server, basePath, prefix) ==
  FlattenItems(server, listJobsAt(server, basePath), basePath, prefix)

\* getJobs(override) with a configured override
getJobs(server) == flattenJobs(server, <<>>, <<>>)

JobsInit ==
  /\ EngineAtRest
  /\ jobsIn \in JobTrees
  /\ jobsOut = NoJobsOut
  /\ sanIn = NoSanIn
  /\ sanOut = NoSan
  /\ runsIn = NoRunsIn
  /\ sumOut = NoSumOut
  /\ linkIn = NoLinkIn
  /\ linkOut = NoLinkOut

\* await getJobs(override)
GetJobsCall ==
  /\ ~jobsOut.done
  /\ jobsOut' = [done |-> TRUE, list |-> getJobs(jobsIn)]
  /\ UNCHANGED <<engineVars, sanVars, jobsIn, sumVars, linkVars>>

JobsNext == GetJobsCall

JobsSpec == JobsInit /\ [][JobsNext]_vars

----------------------------------------------------------------------------
(* GitHub workflow summary: githubService.js 36-63, 128-191, called on its own *)

\* per_page of the two lookups by workflow, and of the repo-wide lookup
WorkflowPerPage == 10
RepoPerPage == 50

\* how many runs the long run lists of the model hold at most
MaxRuns == 11

Name_cd == <<"C", "D">>
Name_cdb == <<"C", "D", "-", "B">>
Name_docs == <<"D", "O", "C", "S">>
Title_cd == <<"c", "d", " ", "m", "e">>
Concl_success == <<"s", "u", "c", "c", "e", "s", "s">>
Concl_failure == <<"f", "a", "i", "l", "u", "r", "e">>

\* a workflow run as GitHub serves it; the times are in ms, 0 when the field is missing
Run(name, title, status, conclusion, started, updated) ==
  [name |-> name, title |-> title, status |-> status, conclusion |-> conclusion,
   run_started_at |-> started, updated_at |-> updated]

K30 == Run(Name_cd, <<>>, "completed", Concl_success, 1000, 31000)
K60 == Run(Name_cd, <<>>, "completed", Concl_success, 1000, 61000)
K90 == Run(Name_cd, <<>>, "completed", Concl_failure, 1000, 91000)
KOdd == Run(Name_cd, <<>>, "completed", Concl_failure, 1000, 3500)
KShort == Run(Name_cd, <<>>, "completed", Concl_failure, 1000, 1400)
KNoTimes == Run(Name_cd, <<>>, "completed", Concl_success, 0, 0)
KRunning == Run(Name_cd, <<>>, "in_progress", <<>>, 1000, 5000)
KOther == Run(Name_cdb, <<>>, "completed", Concl_success, 1000, 61000)
KTitle == Run(Name_docs, Title_cd, "completed", Concl_failure, 1000, 31000)
KDocs == Run(Name_docs, <<>>, "completed", Concl_success, 1000, 31000)

RunKinds == {K30, K60, K90, KOdd, KShort, KNoTimes, KRunning, KOther, KTitle, KDocs}

\* n runs of one kind
Times(k, n) == [i \in 1..n |-> k]

\* the run lists of the model, most recent run first: the short ones, the example,
\* and long ones of one kind, some followed by a different run
RunLists ==
  {<<>>} \cup {<<k>> : k \in RunKinds} \cup {<<k, l>> : k \in RunKinds, l \in RunKinds}
    \cup {<<K30, K60, K90>>}
    \cup {Times(k, n) : k \in RunKinds, n \in (MaxRuns - 1)..MaxRuns}
    \cup {Append(Times(K30, MaxRuns - 1), K90), Append(Times(KDocs, MaxRuns - 1), K60)}

\* the workflow of the model, with or without path
Workflow(hasPath) == [id |-> 1, name |-> Name_cd, hasPath |-> hasPath]

\* what GitHub holds for one call: the runs of the workflow by id and by path, the
\* runs of the repository, and the lookup that fails, if one does
Served(byId, byPath, all, fail) ==
  [byId |-> byId, byPath |-> byPath, all |-> all, fail |-> fail]

\* the run lists come one tier at a time
ServedSets ==
  {Served(l, <<>>, a, f) : l \in RunLists, a \in {<<>>, <<K90>>}, f \in {"none", "id"}}
    \cup {Served(<<>>, l, a, f) : l \in RunLists, a \in {<<>>, <<K90>>}, f \in {"none", "path"}}
    \cup {Served(<<>>, <<>>, l, f) : l \in RunLists, f \in {"none", "all"}}

\* GET .../runs?per_page=n: the n most recent runs
ServedRuns(list, per_page) ==
  SubSeq(list, 1, IF Len(list) < per_page THEN Len(list) ELSE per_page)

\* the filter of the repo-wide fallback
MatchesName(w, r) ==
  LET wname == toLowerCase(w.name)
      n == toLowerCase(r.name)
      t == toLowerCase(r.title)
  IN  n = wname \/ includes(n, wname) \/ includes(t, wname)

\* the third lookup: the runs of the repository with the name of the workflow
FallbackRuns(w, served) ==
  IF served.fail = "all" THEN <<>>
  ELSE SelectSeq(ServedRuns(served.all, RepoPerPage), LAMBDA r : MatchesName(w, r))

\* the runs of a workflow: by id; when there are none, by path; when there are still
\* none, from the repository; [] when the first or the last lookup throws
LookupRuns(w, served) ==
  IF served.fail = "id" THEN <<>>
  ELSE LET byId == ServedRuns(served.byId, WorkflowPerPage)
           byPath == IF byId = <<>> /\ w.hasPath /\ served.fail # "path"
                       THEN ServedRuns(served.byPath, WorkflowPerPage)
                       ELSE byId
       IN  IF byPath # <<>> THEN byPath ELSE FallbackRuns(w, served)

\* Math.round(a / b) for a >= 0 and b > 0
Round(a, b) == (2 * a + b) \div (2 * b)

RECURSIVE Sum(_)
Sum(s) == IF s = <<>> THEN 0 ELSE Head(s) + Sum(Tail(s))

\* s && e && e > s ? Math.round((e - s) / 1000) : 0
DurationSec(r) ==
  IF r.run_started_at # 0 /\ r.updated_at # 0 /\ r.updated_at > r.run_started_at
    THEN Round(r.updated_at - r.run_started_at, 1000)
    ELSE 0

IsCompleted(r) == r.status = "completed"
IsSuccess(r) == toLowerCase(r.conclusion) = Concl_success

\* durations.length ? Math.round(sum / durations.length) : 0
Average(durations) ==
  IF durations # <<>> THEN Round(Sum(durations), Len(durations)) ELSE 0

\* the entry of one workflow: successRate and avgDurationSec, with the runs they
\* were computed from
SummaryOf(w, served) ==
  LET runs == LookupRuns(w, served)
      completed == SelectSeq(runs, IsCompleted)
      successes == Len(SelectSeq(completed, IsSuccess))
      durations == SelectSeq([i \in 1..Len(completed) |-> DurationSec(completed[i])],
                             LAMBDA n : n > 0)
  IN  [id |-> w.id, runs |-> runs,
       successRate |-> IF completed # <<>> THEN Round(successes * 100, Len(completed)) ELSE 0,
       avgDurationSec |-> IF completed # <<>> THEN Average(durations) ELSE 0]

\* workflowsSummary(override) for the workflows listWorkflows returns
workflowsSummary(workflows, served) ==
  [i \in 1..Len(workflows) |-> SummaryOf(workflows[i], served)]

SumInit ==
  /\ EngineAtRest
  /\ runsIn \in {[workflows |-> <<Workflow(hp)>>, served |-> s] :
                    hp \in BOOLEAN, s \in ServedSets}
  /\ sumOut = NoSumOut
  /\ linkIn = NoLinkIn
  /\ linkOut = NoLinkOut
  /\ sanIn = NoSanIn
  /\ sanOut = NoSan
  /\ jobsIn = NoJobsIn
  /\ jobsOut = NoJobsOut

\* await workflowsSummary(override)
Summarize ==
  /\ ~sumOut.done
  /\ sumOut' = [done |-> TRUE, list |-> workflowsSummary(runsIn.workflows, runsIn.served)]
  /\ UNCHANGED <<engineVars, sanVars, jobVars, runsIn, linkVars>>

SumNext == Summarize

SumSpec == SumInit /\ [][SumNext]_vars

----------------------------------------------------------------------------
(* Properties *)

Range(f) == {f[i] : i \in DOMAIN f}

AlertIdSet == DOMAIN alerts

\* the events of the history that belong to an alert
EventsOf(id) == {i \in 1..Len(history) : history[i].alertId = id}

\* the dispatchChannels calls pass p made for an alert
AttemptsFor(p, id) ==
  {k \in 1..Len(pass[p].dispatched) : pass[p].dispatched[k].alertId = id}

\* the dispatchChannels calls pass p made for one target of an alert
AttemptsOn(p, id, cfg, target) ==
  {k \in AttemptsFor(p, id) :
     pass[p].dispatched[k].cfg = cfg /\ pass[p].dispatched[k].target = target}

\* an event with this alert and message lies in the log, no older than `minutes`
RecordedWithin(id, message, minutes) ==
  \E i \in EventsOf(id) :
     history[i].message = message /\ history[i].sentAt >= now - minutes

\* C1: an alert with isActive = false is never looked at by a pass, however the pass
\* was started: no provider call is made for it, the history is not queried for it,
\* dispatchChannels is not called for it and no event of it is written.
Thm_C1 ==
  \A id \in AlertIdSet :
     ~alerts[id].isActive =>
        /\ \A provider \in {"jenkins", "github"} : <<id, provider>> \notin calls
        /\ id \notin queried
        /\ EventsOf(id) = {}
        /\ \A p \in PassIds :
             /\ AttemptsFor(p, id) = {}
             /\ id \notin Range(pass[p].alerts)

\* a scheduled pass has run to its end next to an inactive alert and has dispatched
\* for the other alert
Wit_C1 ==
  \E id \in AlertIdSet, p \in PassIds :
     /\ ~alerts[id].isActive
     /\ pass[p].kind = "tick"
     /\ pass[p].pc = "done"
     /\ pass[p].dispatched # <<>>

\* the targets evaluateJenkins looks at in an integration
TargetsOf(alert, cfg) ==
  IF alert.jenkinsJob # "" THEN {alert.jenkinsJob} ELSE Range(JenkinsJobs(cfg))

\* what C2 asks of a finished pass p for every target of the alert: a latest run
\* inside recentMinutes that matches the event was dispatched once, or not at all
\* with its event in the log
OnePerRun(p, a) ==
  /\ WantsJenkins(a) =>
       \A cfg \in Range(ActiveJenkins) : \A name \in TargetsOf(a, cfg) :
          LET last == JenkinsLastBuild(cfg, name)
              n == Cardinality(AttemptsOn(p, a.id, cfg, name))
          IN  (last.found /\ ~JenkinsTooOld(last, RecentOf(a), now)
                 /\ JenkinsMatches(EventOf(a), last)) =>
                \/ n = 1
                \/ n = 0 /\ RecordedWithin(a.id, JenkinsMessage(name, last), RecentOf(a))
  /\ WantsGitHub(a) =>
       \A cfg \in Range(ActiveGitHub) :
          LET run == GitHubRuns(cfg)[1]
              message == GitHubMessage(GitHubRow(cfg), run)
              n == Cardinality(AttemptsOn(p, a.id, cfg, message.target))
          IN  (~GitHubTooOld(run, RecentOf(a), now) /\ GitHubMatches(EventOf(a), run)) =>
                \/ n = 1
                \/ n = 0 /\ RecordedWithin(a.id, message, RecentOf(a))

\* a pass that has returned and in which no call has failed
CleanPass(p) == pass[p].pc = "done" /\ ~pass[p].rejected /\ faults = 0

ScenarioAlert(a) ==
  /\ a.isActive /\ a.type = "BUILD_FAILURE" /\ WantsJenkins(a)
  /\ EventOf(a) = "FAILURE" /\ a.recentMinutes = 120
  /\ ~JenkinsTooOld(JenkinsLastBuild("j1", "svc-ci"), a.recentMinutes, now)

\* two evaluate-now passes, the second started after the first had returned, and no
\* call failed
TwoTriggers ==
  /\ pass[1].kind = "trigger" /\ pass[2].kind = "trigger"
  /\ 1 \in pass[2].pred
  /\ CleanPass(1) /\ CleanPass(2)

\* C3: of two consecutive evaluate-now passes that do not overlap, the first appends
\* exactly one event for the alert, with status SENT and a message naming svc-ci and
\* #42; the second appends no event and calls dispatchChannels not once.
Thm_C3 ==
  TwoTriggers =>
     \A id \in AlertIdSet : ScenarioAlert(alerts[id]) =>
        LET first == {i \in EventsOf(id) : i > pass[1].h0 /\ i <= pass[2].h0}
            later == {i \in EventsOf(id) : i > pass[2].h0}
        IN  /\ Cardinality(first) = 1
            /\ \A i \in first :
                 /\ history[i].status = "SENT"
                 /\ history[i].message.target = "svc-ci"
                 /\ history[i].message.number = 42
            /\ later = {}
            /\ AttemptsFor(2, id) = {}

\* both passes have returned, the first has sent and the second has found the event
Wit_C3 ==
  /\ TwoTriggers
  /\ ScenarioAlert(alerts["a1"])
  /\ AttemptsFor(1, "a1") # {}
  /\ EventsOf("a1") # {}

\* the history store holds an event that answers the query
Answered(q) ==
  \E i \in 1..Len(history) :
     /\ history[i].alertId = q.alertId
     /\ history[i].message = q.message
     /\ history[i].sentAt >= q.since

\* pass p takes the step in which it queries the history for a candidate
Queries(p) ==
  /\ pass[p].pc \in {"jjob", "gcfg"}
  /\ pass'[p] # pass[p]
  /\ pass'[p].q # NoQuery

\* C4: a candidate whose (alertId, message) the dedup guard finds inside the lookback
\* window is dropped in that very step: dispatchChannels is not called, no channel is
\* used and the history stays as it is.
Thm_C4 ==
  [][\A p \in PassIds :
       (Queries(p) /\ Answered(pass'[p].q)) =>
          /\ history' = history
          /\ pass'[p].dispatched = pass[p].dispatched
          /\ pass'[p].sent = NoSent
          /\ pass'[p].pc \notin {"dispatch", "record"}]_vars

\* a pass has just had a candidate suppressed by the guard
Wit_C4 ==
  \E p \in PassIds :
     /\ pass[p].q # NoQuery
     /\ Answered(pass[p].q)
     /\ pass[p].warned = {}
     /\ pass[p].pc \notin {"dispatch", "record"}
     /\ AttemptsFor(p, pass[p].q.alertId) = {}

\* the window of a query of the history, in minutes
WindowOf(q) == q.at - q.since

\* C5 (as amended): the dedup guard looks back conditions.recentMinutes minutes, and
\* 180 minutes when recentMinutes is absent from the conditions.
Thm_C5 ==
  \A p \in PassIds :
     LET q == pass[p].q IN
     q # NoQuery =>
        WindowOf(q) = IF alerts[q.alertId].recentMinutes # 0
                        THEN alerts[q.alertId].recentMinutes
                        ELSE 180

\* the history is queried for an alert without recentMinutes
Wit_C5 ==
  \E p \in PassIds :
     pass[p].q # NoQuery /\ alerts[pass[p].q.alertId].recentMinutes = 0

\* C5 (as written): the dedup guard looks back conditions.recentMinutes minutes, and
\* 60 minutes when recentMinutes is absent.
Cex_C5 ==
  \A p \in PassIds :
     LET q == pass[p].q IN
     q # NoQuery =>
        WindowOf(q) = IF alerts[q.alertId].recentMinutes # 0
                        THEN alerts[q.alertId].recentMinutes
                        ELSE 60

\* what one channel must have done given its own transport alone
EmailAlone(s) ==
  \/ s.email \in {"none", "no_recipients"}
  \/ s.email = "skipped" /\ s.smtp = "none"
  \/ s.email = "sent" /\ s.smtp = "up"
  \/ s.email = "failed" /\ s.smtp = "down"

SlackAlone(s) ==
  \/ s.slack = "none"
  \/ s.slack = "sent" /\ s.hook = "up"
  \/ s.slack = "failed" /\ s.hook = "down"

\* C6: in every dispatchChannels call of a pass each channel is attempted and ends as
\* its own transport decides, whatever the other channel did, and the call does not
\* reject.
Thm_C6 ==
  \A p \in PassIds :
     LET s == pass[p].sent IN
     s # NoSent => EmailAlone(s) /\ SlackAlone(s) /\ ~s.rejected

\* the email send was rejected, the webhook got its payload, and the pass goes on to
\* record the event
Wit_C6 ==
  \E p \in PassIds :
     /\ pass[p].sent.email = "failed"
     /\ pass[p].sent.slack = "sent"
     /\ pass[p].pc = "record"

\* C7: for an alert with an email and a webhook channel, when SMTP is not configured
\* or no recipient survives sanitization the email is skipped and nothing is raised,
\* and the webhook is posted to (and receives the payload when it is up).
Thm_C7 ==
  \A p \in PassIds :
     LET s == pass[p].sent IN
     (s # NoSent /\ s.email # "none" /\ s.slack # "none"
        /\ (s.smtp = "none" \/ s.to = <<>>)) =>
          /\ s.email \in {"skipped", "no_recipients"}
          /\ ~s.rejected
          /\ s.slack = IF s.hook = "up" THEN "sent" ELSE "failed"

\* without SMTP the email of a two-channel alert is skipped and the webhook is served
Wit_C7 ==
  \E p \in PassIds :
     /\ pass[p].sent.email = "skipped"
     /\ pass[p].sent.to = To_ok
     /\ pass[p].sent.slack = "sent"

\* the reading of the tokens: well-formed, blocked address, denylisted suffix
WellFormed == {Lex_ok, Lex_upper, Lex_test, Lex_dev, Lex_local}
Blocked == {Lex_dev}
Denylisted == {Lex_test, Lex_dev, Lex_local}

Accepted(token) ==
  token \in WellFormed /\ token \notin Blocked /\ token \notin Denylisted

\* "a@b.com, not-an-email, c@d.test"
Example == [tokens |-> <<Lex_ok, Lex_word, Lex_test>>, seps |-> <<",", " ">>, edge |-> <<>>]

\* C8: sanitizeRecipients returns the well-formed, unblocked tokens without a
\* denylisted suffix, in input order; the example gives exactly a@b.com; and
\* sanitizing the joined result gives the same list.
Thm_C8 ==
  sanOut.done =>
     /\ sanOut.list = SelectSeq(sanIn.tokens, Accepted)
     /\ sanOut.again = sanOut.list
     /\ (sanIn = Example => sanOut.list = <<Lex_ok>>)

\* the example has been sanitized
Wit_C8 == sanOut.done /\ sanIn = Example /\ sanOut.list = <<To_ok>>

\* C9: POST /alerts/test makes no provider call, does not query the history and
\* appends no event, whatever the history holds; it answers 200 with each channel
\* ending as its own transport decides.
Thm_C9 ==
  /\ [](/\ \A provider \in {"jenkins", "github"} : <<"test", provider>> \notin calls
        /\ "test" \notin queried
        /\ EventsOf("test") = {}
        /\ testOut # NoTest =>
             /\ testOut.code = 200 /\ testOut.success
             /\ EmailAlone(testOut.sent) /\ SlackAlone(testOut.sent))
  /\ [][testOut' # testOut =>
          /\ history' = history /\ calls' = calls /\ queried' = queried
          /\ pass' = pass]_vars

\* a test was sent next to a history with events: its email failed, its webhook was served
Wit_C9 ==
  /\ testOut.sent.email = "failed"
  /\ testOut.sent.slack = "sent"
  /\ history # <<>>

\* C10 (as amended): POST /alerts/trigger runs one full pass and answers
\* { success: true } whenever the pass returns, also when the evaluation of an alert
\* failed; it answers 500 only when the pass rejects.
Thm_C10 ==
  \A p \in PassIds :
     (pass[p].pc = "done" /\ pass[p].kind = "trigger") =>
        /\ pass[p].resp = IF pass[p].rejected THEN [code |-> 500, success |-> FALSE]
                          ELSE [code |-> 200, success |-> TRUE]
        /\ ~pass[p].rejected => pass[p].ai = Len(pass[p].alerts) + 1

\* evaluate-now has answered success although the evaluation of an alert failed
Wit_C10 ==
  \E p \in PassIds :
     /\ pass[p].pc = "done" /\ pass[p].kind = "trigger"
     /\ pass[p].failed # {}
     /\ pass[p].resp.success

\* C10 (as written): the answer tells the alerts whose evaluation failed from the
\* others, so that it reports success only when no evaluation failed.
Cex_C10 ==
  \A p \in PassIds :
     (pass[p].pc = "done" /\ pass[p].kind = "trigger" /\ ~pass[p].rejected) =>
        (pass[p].resp.success <=> pass[p].failed = {})

\* the evaluators have been called for the alert in pass p
Evaluated(p, id) ==
  \E u \in pass[p].seen : u.alert = id /\ u.cfg = "" /\ u.target = ""

\* the alerts a pass has to evaluate: active, of an evaluated type, with a provider
\* tag that names no provider or a known one
Evaluable(id) ==
  /\ alerts[id].isActive
  /\ EvaluatedType(alerts[id])
  /\ WantsJenkins(alerts[id]) \/ WantsGitHub(alerts[id])

\* C11: an error raised while one alert is evaluated is logged and not raised: the
\* pass does not reject because of it, and once the pass has returned every other
\* active alert it fetched has been evaluated.
Thm_C11 ==
  \A p \in PassIds :
     /\ pass[p].rejected => pass[p].failed = {} /\ pass[p].seen = {}
     /\ (pass[p].pc = "done" /\ ~pass[p].rejected) =>
          /\ pass[p].alerts = ActiveAlerts(alerts)
          /\ \A id \in AlertIdSet : Evaluable(id) => Evaluated(p, id)

\* the evaluation of a1 failed, a2 was evaluated after it and has dispatched, and the
\* pass has returned
Wit_C11 ==
  \E p \in PassIds :
     /\ pass[p].pc = "done" /\ ~pass[p].rejected
     /\ pass[p].failed = {"a1"}
     /\ Evaluated(p, "a2")
     /\ AttemptsFor(p, "a2") # {}

\* pass p takes a step in which its provider call (getJobs, getLastBuild or
\* listWorkflowRuns) fails
ProviderFails(p) ==
  /\ pass[p].pc \in {"jobs", "jjob", "gcfg"}
  /\ pass'[p] # pass[p]
  /\ faults' > faults
  /\ pass'[p].q = NoQuery

\* the body of the loop over the integrations has been entered for the integration
EnteredCfg(p, id, provider, cfg) ==
  \E u \in pass[p].seen :
     u.alert = id /\ u.provider = provider /\ u.cfg = cfg /\ u.target = ""

\* C12: a failing provider call is caught where it is made: in that step nothing is
\* dispatched or recorded, the alert is not failed and the pass does not reject; and
\* a pass that has returned has entered every active integration of every alert whose
\* integration lookups succeeded, whatever provider calls failed.
Thm_C12 ==
  /\ [][\A p \in PassIds : ProviderFails(p) =>
          /\ history' = history
          /\ pass'[p].dispatched = pass[p].dispatched
          /\ pass'[p].pc \notin {"dispatch", "record"}
          /\ pass'[p].failed = pass[p].failed
          /\ ~pass'[p].rejected]_vars
  /\ [](\A p \in PassIds : (pass[p].pc = "done" /\ ~pass[p].rejected) =>
          \A id \in AlertIdSet : (Evaluable(id) /\ id \notin pass[p].failed) =>
             /\ WantsJenkins(alerts[id]) =>
                  \A cfg \in Range(ActiveJenkins) : EnteredCfg(p, id, "jenkins", cfg)
             /\ WantsGitHub(alerts[id]) =>
                  \A cfg \in Range(ActiveGitHub) : EnteredCfg(p, id, "github", cfg))

\* getJobs failed for j1: no job of j1 was looked at, j2 was evaluated and has
\* dispatched, and the pass has returned
Wit_C12 ==
  \E p \in PassIds :
     /\ pass[p].pc = "done" /\ ~pass[p].rejected /\ pass[p].failed = {}
     /\ <<"a1", "j1">> \in pass[p].warned
     /\ ~\E u \in pass[p].seen : u.alert = "a1" /\ u.cfg = "j1" /\ u.target # ""
     /\ \E k \in AttemptsFor(p, "a1") : pass[p].dispatched[k].cfg = "j2"

\* the body of the loop over the jobs has been entered for the job
EnteredJob(p, id, cfg, name) ==
  \E u \in pass[p].seen :
     u.alert = id /\ u.provider = "jenkins" /\ u.cfg = cfg /\ u.target = name

\* C13: for an alert without provider tag, whatever fails in the Jenkins portion of
\* its evaluation, a pass that has returned has evaluated the GitHub portion of the
\* alert, and has looked at every job of an integration of which it has looked at
\* one job.
Cex_C13 ==
  \A p \in PassIds : (pass[p].pc = "done" /\ ~pass[p].rejected) =>
     \A id \in AlertIdSet : (Evaluable(id) /\ alerts[id].provider = "") =>
        /\ \E u \in pass[p].seen : u.alert = id /\ u.provider = "github" /\ u.cfg = ""
        /\ \A cfg \in Range(ActiveJenkins) :
             (\E name \in TargetsOf(alerts[id], cfg) : EnteredJob(p, id, cfg, name)) =>
                \A name \in TargetsOf(alerts[id], cfg) : EnteredJob(p, id, cfg, name)

\* C13, second case alone: the jobs of an integration are all looked at or none is
Cex_C13_jobs ==
  \A p \in PassIds : (pass[p].pc = "done" /\ ~pass[p].rejected) =>
     \A id \in AlertIdSet : (Evaluable(id) /\ alerts[id].provider = "") =>
        \A cfg \in Range(ActiveJenkins) :
           (\E name \in TargetsOf(alerts[id], cfg) : EnteredJob(p, id, cfg, name)) =>
              \A name \in TargetsOf(alerts[id], cfg) : EnteredJob(p, id, cfg, name)

\* pass p takes the step of recordHistory and the create fails
RecordFails(p) ==
  /\ pass[p].pc = "record"
  /\ pass'[p] # pass[p]
  /\ faults' > faults

\* C14: a failing history write is logged and swallowed: the step leaves the history
\* and the dispatch that preceded it as they were, counts one logged error, fails
\* neither the integration nor the alert nor the pass; and a pass that has returned
\* has looked at every job of every integration that was not given up.
Thm_C14 ==
  /\ [][\A p \in PassIds : RecordFails(p) =>
          /\ history' = history
          /\ pass'[p].dispatched = pass[p].dispatched
          /\ pass'[p].sent = pass[p].sent
          /\ pass'[p].recordErrors = pass[p].recordErrors + 1
          /\ pass'[p].warned = pass[p].warned
          /\ pass'[p].failed = pass[p].failed
          /\ ~pass'[p].rejected]_vars
  /\ [](\A p \in PassIds : (pass[p].pc = "done" /\ ~pass[p].rejected) =>
          \A id \in AlertIdSet : (Evaluable(id) /\ id \notin pass[p].failed) =>
             /\ WantsJenkins(alerts[id]) =>
                  \A cfg \in Range(ActiveJenkins) : <<id, cfg>> \notin pass[p].warned =>
                     \A name \in TargetsOf(alerts[id], cfg) : EnteredJob(p, id, cfg, name)
             /\ WantsGitHub(alerts[id]) =>
                  \A cfg \in Range(ActiveGitHub) : EnteredCfg(p, id, "github", cfg))

\* the write after the dispatch for j1 failed and was logged; the pass went on to the
\* other job of j1, dispatched again for j2 and wrote that event, evaluated the
\* GitHub integration and returned
Wit_C14 ==
  \E p \in PassIds :
     /\ pass[p].pc = "done" /\ ~pass[p].rejected
     /\ pass[p].recordErrors = 1 /\ pass[p].warned = {} /\ pass[p].failed = {}
     /\ Len(pass[p].dispatched) >= 2
     /\ pass[p].dispatched[1].cfg = "j1" /\ pass[p].dispatched[2].cfg = "j2"
     /\ EnteredJob(p, "a1", "j1", "web")
     /\ EnteredCfg(p, "a1", "github", "g1")
     /\ Len(history) = pass[p].h0 + 1

\* a pass started by the cron job
ScheduledPass(p) == pass[p].kind = "tick"

\* C15: a server started with ALERTS_ENABLED = 'false' never calls
\* startAlertScheduler, registers no cron job and runs no scheduled pass; started
\* with the variable unset or with any other value, its listen callback has called
\* startAlertScheduler exactly once.
Thm_C15 ==
  /\ (boot.env = EnvString("false")) =>
        /\ boot.starts = 0
        /\ ~scheduled
        /\ \A p \in PassIds : ~ScheduledPass(p)
  /\ (boot.env # EnvString("false")) =>
        boot.starts = IF boot.listening THEN 1 ELSE 0
  /\ scheduled => boot.starts = 1

\* a server started with ALERTS_ENABLED = 'FALSE' has run a scheduled pass to its end
Wit_C15 ==
  /\ boot.env = EnvString("FALSE")
  /\ boot.listening /\ scheduled
  /\ ScheduledPass(1) /\ pass[1].pc = "done"

\* a server started with ALERTS_ENABLED = 'false' is listening and has answered a
\* manual trigger, without scheduler
Wit_C15_disabled ==
  /\ boot.env = EnvString("false")
  /\ boot.listening /\ ~scheduled
  /\ pass[1].kind = "trigger" /\ pass[1].pc = "done"

\* the names of the model's items, and the paths of names a tree of the model has
ItemNames == {"A", "B", "job1", "job2"}
NamePaths == UNION {[1..n -> ItemNames] : n \in 1..3}

RECURSIVE ItemAt(_, _)
\* the items with the path in a tree: at most one, names being different in a folder
ItemAt(items, path) ==
  {j \in Range(items) : j.name = path[1] /\ Len(path) = 1}
    \cup UNION {ItemAt(j.jobs, Tail(path)) :
                  j \in {f \in Range(items) : Len(path) > 1 /\ f.name = path[1] /\ isFolder(f)}}

\* a path written with '/' between the names
RECURSIVE Slashed(_)
Slashed(path) ==
  IF Len(path) = 1 THEN path ELSE <<path[1], "/">> \o Slashed(Tail(path))

\* the names of the jobs, and of the folders, that lie under folders only
JobPaths(tree) == {Slashed(p) : p \in {q \in NamePaths : \E j \in ItemAt(tree, q) : ~isFolder(j)}}
FolderPaths(tree) == {Slashed(p) : p \in {q \in NamePaths : \E j \in ItemAt(tree, q) : isFolder(j)}}

\* the names of a job list
NamesOf(list) == {list[i].name : i \in 1..Len(list)}

\* C16: getJobs returns each job that is not a folder once, named by the names of
\* its folders and its own joined with '/', and nothing else: no folder, and nothing
\* for a folder without jobs; for A/B/job1 and A/job2 it returns exactly those two.
Thm_C16 ==
  jobsOut.done =>
     /\ NamesOf(jobsOut.list) = JobPaths(jobsIn)
     /\ Len(jobsOut.list) = Cardinality(JobPaths(jobsIn))
     /\ NamesOf(jobsOut.list) \cap FolderPaths(jobsIn) = {}
     /\ (jobsIn = ExampleTree) =>
           jobsOut.list = <<[name |-> <<"A", "/", "B", "/", "job1">>],
                            [name |-> <<"A", "/", "job2">>]>>

\* the example tree has been listed
Wit_C16 ==
  /\ jobsOut.done
  /\ jobsIn = ExampleTree
  /\ Len(jobsOut.list) = 2

\* a tree with an empty folder next to a job inside a folder has been listed
Wit_C16_empty ==
  /\ jobsOut.done
  /\ jobsIn = <<Item("A", Cls_OrgFolder,
                     <<Item("B", Cls_Folder, <<>>), Item("job1", Cls_None, <<>>)>>)>>
  /\ NamesOf(jobsOut.list) = {<<"A", "/", "job1">>}

\* the completed runs among those a summary entry was computed from, and the
\* durations in seconds of those that have one
CompletedOf(e) == SelectSeq(e.runs, IsCompleted)
DurationsOf(e) ==
  SelectSeq([i \in 1..Len(CompletedOf(e)) |-> DurationSec(CompletedOf(e)[i])], LAMBDA n : n > 0)

\* the statistics of a summary entry are the rounded mean of the durations and the
\* rounded percentage of successes among the completed runs it was computed from
StatsOfCompleted(e) ==
  /\ e.avgDurationSec =
       IF DurationsOf(e) = <<>> THEN 0 ELSE Round(Sum(DurationsOf(e)), Len(DurationsOf(e)))
  /\ e.successRate =
       IF CompletedOf(e) = <<>> THEN 0
       ELSE Round(100 * Len(SelectSeq(CompletedOf(e), IsSuccess)), Len(CompletedOf(e)))

\* C17: every entry of the summary has the rounded mean duration and the rounded
\* success percentage of the completed runs among the runs it was computed from,
\* and these are at most 10 runs, whichever lookup supplied them.
Cex_C17 ==
  sumOut.done =>
     \A i \in 1..Len(sumOut.list) :
        /\ StatsOfCompleted(sumOut.list[i])
        /\ Len(sumOut.list[i].runs) <= WorkflowPerPage

\* C17, the statistics alone: the means and percentages are those of the runs that
\* were looked up, and durations 30, 60, 90 with two successes give 60 and 67
C17_Statistics ==
  sumOut.done =>
     \A i \in 1..Len(sumOut.list) :
        /\ StatsOfCompleted(sumOut.list[i])
        /\ (sumOut.list[i].runs = <<K30, K60, K90>>) =>
              sumOut.list[i].avgDurationSec = 60 /\ sumOut.list[i].successRate = 67

\* C17, the lookups by workflow alone: when the runs come from the lookup by id or
\* by path, they are at most 10
C17_ByWorkflow ==
  sumOut.done =>
     \A i \in 1..Len(sumOut.list) :
        (runsIn.served.byId # <<>> \/ runsIn.served.byPath # <<>>) =>
           Len(sumOut.list[i].runs) <= WorkflowPerPage

\* the three-run example has been summarised from a lookup by path
C17_Example ==
  /\ sumOut.done
  /\ runsIn.served.byPath = <<K30, K60, K90>>
  /\ sumOut.list[1].runs = <<K30, K60, K90>>

\* the history after the step is the history before it, or that with one event
\* more at its end
Appended ==
  \/ history' = history
  \/ /\ Len(history') = Len(history) + 1
     /\ SubSeq(history', 1, Len(history)) = history

\* C18: no step of the engine changes or removes an event that is in the history,
\* and no step changes an alert definition: the history only grows at its end.
Thm_C18 == [][Appended /\ alerts' = alerts]_vars

\* two passes have returned and the history holds the events of both, the older
\* one first
Wit_C18 ==
  /\ \A p \in PassIds : pass[p].pc = "done"
  /\ Len(history) >= 2
  /\ history[1].sentAt < history[2].sentAt
  /\ pass[2].h0 = 1

\* pass p has called dispatchChannels for the alert with the message
DispatchedFor(p, id, message) ==
  \E k \in 1..Len(pass[p].dispatched) :
     pass[p].dispatched[k].alertId = id /\ pass[p].dispatched[k].message = message

\* neither pass had returned when the other started
Overlapped(p, o) == p # o /\ p \notin pass[o].pred /\ o \notin pass[p].pred

\* events i and j are of the same alert and message, and j is inside the dedup
\* window that starts at i
SameWindow(i, j) ==
  /\ i < j
  /\ history[i].alertId = history[j].alertId
  /\ history[i].message = history[j].message
  /\ history[j].sentAt - history[i].sentAt < RecentOf(alerts[history[i].alertId])

\* C19: two events of the same alert and message inside one dedup window come from
\* two passes that overlapped and that both dispatched: the check of the one ran
\* before the write of the other.  The guard keeps passes that follow one another
\* from doing so.
Thm_C19 ==
  \A i \in 1..Len(history), j \in 1..Len(history) : SameWindow(i, j) =>
     \E p \in PassIds, o \in PassIds :
        /\ Overlapped(p, o)
        /\ DispatchedFor(p, history[i].alertId, history[i].message)
        /\ DispatchedFor(o, history[i].alertId, history[i].message)

\* no call has failed, two overlapping passes have both dispatched for the same
\* alert and message and have returned, and the history holds two events of that
\* alert and message with the same time
Wit_C19 ==
  /\ faults = 0
  /\ \A p \in PassIds : pass[p].pc = "done"
  /\ Overlapped(1, 2)
  /\ \E i \in 1..Len(history), j \in 1..Len(history) :
        /\ SameWindow(i, j)
        /\ history[i].sentAt = history[j].sentAt
        /\ DispatchedFor(1, history[i].alertId, history[i].message)
        /\ DispatchedFor(2, history[i].alertId, history[i].message)

\* what a channel can have done once dispatchChannels has returned
EmailSettled == {"none", "no_recipients", "skipped", "sent", "failed"}
SlackSettled == {"none", "sent", "failed"}

\* dispatchChannels has returned for the candidate of pass p
Settled(p) ==
  /\ pass[p].cand # NoCand
  /\ pass[p].sent.email \in EmailSettled
  /\ pass[p].sent.slack \in SlackSettled

\* pass p has just written the event of its candidate
Recorded(p) ==
  /\ pass[p].pc \notin {"dispatch", "record"}
  /\ Settled(p)
  /\ \E i \in 1..Len(history) :
        history[i] = HistoryRow(pass[p].cand.alertId, "SENT", pass[p].cand.message,
                                history[i].sentAt)

\* C20: every event is written by a pass whose dispatchChannels call for the
\* candidate has returned, is the event of that candidate and has status SENT,
\* whatever the channels did; no event has another status.
Thm_C20 ==
  /\ [](\A i \in 1..Len(history) : history[i].status = "SENT")
  /\ [](\A p \in PassIds : pass[p].pc = "record" => Settled(p))
  /\ [][history' # history =>
          \E p \in PassIds :
             /\ pass[p].pc = "record" /\ Settled(p)
             /\ pass'[p].sent = pass[p].sent
             /\ history' = Append(history, HistoryRow(pass[p].cand.alertId, "SENT",
                                                      pass[p].cand.message, now))]_vars

\* an event with status SENT has been written after a dispatch in which the mail
\* and the webhook both failed
Wit_C20 ==
  \E p \in PassIds :
     /\ Recorded(p)
     /\ pass[p].sent.email = "failed" /\ pass[p].sent.slack = "failed"

\* ... after a dispatch for an alert without any channel
Wit_C20_none ==
  \E p \in PassIds :
     /\ Recorded(p)
     /\ pass[p].sent.email = "none" /\ pass[p].sent.slack = "none"

\* ... after a dispatch in which the mail was skipped for want of a transport and
\* the webhook delivered
Wit_C20_skipped ==
  \E p \in PassIds :
     /\ Recorded(p)
     /\ pass[p].sent.email = "skipped" /\ pass[p].sent.slack = "sent"

\* pass p has started
Started(p) == pass[p].pc # "idle"

\* pass p waits for a provider call that never returns
Hung(p) == pass[p].pc = "hung"

\* pass p has evaluated every alert it has to evaluate
AllEvaluated(p) == \A id \in AlertIdSet : Evaluable(id) => Evaluated(p, id)

\* C21 (as stated): whatever provider call is slow or never returns, a pass that
\* has started eventually evaluates every active alert it has to evaluate.
Cex_C21 == \A p \in PassIds : Started(p) ~> AllEvaluated(p)

\* C21 (as amended): a pass whose provider calls all return, however late,
\* eventually evaluates every alert and returns; a pass whose call never returns
\* goes no further, and a pass that is started while it waits still runs to its end.
Thm_C21 ==
  /\ \A p \in PassIds : Started(p) ~> (Hung(p) \/ (AllEvaluated(p) /\ pass[p].pc = "done"))
  /\ \A p \in PassIds : [](Hung(p) => [](Hung(p)))
  /\ Hung(1) ~> (Hung(2) \/ (AllEvaluated(2) /\ pass[2].pc = "done"))

\* the first pass waits for ever at the GitHub call of a1 without having evaluated
\* a2, and the pass started after it has evaluated both alerts and has returned
Wit_C21 ==
  /\ Hung(1)
  /\ alerts["a2"].isActive /\ Evaluable("a1")
  /\ Evaluated(1, "a1") /\ ~Evaluated(1, "a2")
  /\ pass[2].pc = "done" /\ AllEvaluated(2)

\* the loop body pass p is in: the job of the integration, or the integration
CurrentUnit(p) ==
  LET r == pass[p] IN
  Unit(r, IF r.phase = "jenkins" THEN "jenkins" ELSE "github", r.cfgs[r.ci],
       IF r.pc \in {"jjob"} \/ (r.phase = "jenkins" /\ r.pc \in {"dispatch", "record"})
         THEN r.jobs[r.ji] ELSE "")

\* C22: a pass has at most one loop body running: while it waits for a provider
\* request, a dispatch or a history write, that body is the only one it has
\* started and not finished, and between two bodies it has none.
Thm_C22 ==
  \A p \in PassIds :
     /\ Cardinality(pass[p].open) <= 1
     /\ pass[p].open \subseteq pass[p].seen
     /\ pass[p].pc \in {"jobs", "jjob", "gcfg", "dispatch", "record"} =>
           pass[p].open = {CurrentUnit(p)}
     /\ pass[p].pc \in {"idle", "jenkins", "github", "done"} => pass[p].open = {}

\* the pass has dispatched and recorded for svc-ci of j1 and now waits for the
\* latest build of web, the only body it has running
Wit_C22 ==
  \E p \in PassIds :
     /\ pass[p].pc = "jjob"
     /\ pass[p].open = {Unit(pass[p], "jenkins", "j1", "web")}
     /\ EnteredJob(p, "a1", "j1", "svc-ci")
     /\ Len(pass[p].dispatched) = 1
     /\ Len(history) > pass[p].h0

\* the workflows that have runs in an integration's repository, and the latest run
\* of a workflow
WorkflowsOf(cfg) == {GitHubRuns(cfg)[i].workflow : i \in 1..Len(GitHubRuns(cfg))}
LatestRunOf(cfg, w) ==
  GitHubRuns(cfg)[CHOOSE i \in 1..Len(GitHubRuns(cfg)) :
                    /\ GitHubRuns(cfg)[i].workflow = w
                    /\ \A k \in 1..(i - 1) : GitHubRuns(cfg)[k].workflow # w]

\* the history holds an event of the alert with the message
Notified(id, message) ==
  \E i \in 1..Len(history) : history[i].alertId = id /\ history[i].message = message

\* C23, Jenkins: when no call has failed and a pass has returned, every job of every
\* active integration (or the one job the alert names) whose latest build is inside
\* the window and matches the event has its notification in the history.
C23_Jenkins ==
  \A p \in PassIds : (pass[p].pc = "done" /\ faults = 0) =>
     \A id \in AlertIdSet : (Evaluable(id) /\ WantsJenkins(alerts[id])) =>
        \A cfg \in Range(ActiveJenkins) : \A name \in TargetsOf(alerts[id], cfg) :
           LET last == JenkinsLastBuild(cfg, name) IN
           (/\ last.found
            /\ ~JenkinsTooOld(last, RecentOf(alerts[id]), now)
            /\ JenkinsMatches(EventOf(alerts[id]), last))
             => Notified(id, JenkinsMessage(name, last))

\* C23: the same for GitHub: every workflow of every active integration whose latest
\* run is inside the window and matches the event has its notification in the
\* history.
Cex_C23 ==
  \A p \in PassIds : (pass[p].pc = "done" /\ faults = 0) =>
     \A id \in AlertIdSet : (Evaluable(id) /\ WantsGitHub(alerts[id])) =>
        \A cfg \in Range(ActiveGitHub) : \A w \in WorkflowsOf(cfg) :
           LET run == LatestRunOf(cfg, w) IN
           (/\ ~GitHubTooOld(run, RecentOf(alerts[id]), now)
            /\ GitHubMatches(EventOf(alerts[id]), run))
             => Notified(id, GitHubMessage(GitHubRow(cfg), run))

\* the run behind a candidate: the latest build of the job, or the latest run of the
\* repository; whether it has a timestamp, and the timestamp
RunBehind(c) ==
  IF c.provider = "jenkins" THEN JenkinsLastBuild(c.cfg, c.target) ELSE GitHubRuns(c.cfg)[1]
HasStamp(c) == IF c.provider = "jenkins" THEN RunBehind(c).hasTs ELSE RunBehind(c).tsValid
StampOf(c) == IF c.provider = "jenkins" THEN RunBehind(c).timestamp ELSE RunBehind(c).ts

\* the start of the recency window of the alert of a candidate
CutoffOf(c) == now - RecentOf(alerts[c.alertId])

\* the candidates pass p has dispatched
DispatchedBy(p) == Range(pass[p].dispatched)

\* every event written since pass p started is the event of a candidate it dispatched
EventsFromDispatches(p) ==
  Started(p) => \A i \in (pass[p].h0 + 1)..Len(history) :
     \E c \in DispatchedBy(p) :
        history[i].alertId = c.alertId /\ history[i].message = c.message

\* C24 (as stated): every run that is dispatched or recorded has a timestamp, and
\* it lies in [now - recentMinutes, now].
Cex_C24 ==
  /\ EventsFromDispatches(1)
  /\ \A c \in DispatchedBy(1) :
        HasStamp(c) /\ CutoffOf(c) <= StampOf(c) /\ StampOf(c) <= now

\* C24 (as amended): no run with a timestamp before now - recentMinutes is
\* dispatched or recorded, whatever its outcome and whatever the history holds; a
\* GitHub run without a valid timestamp is not either.  (A Jenkins build without
\* numeric timestamp counts as started now, and a timestamp after now is let through.)
Thm_C24 ==
  /\ EventsFromDispatches(1)
  /\ \A c \in DispatchedBy(1) :
        /\ HasStamp(c) => StampOf(c) >= CutoffOf(c)
        /\ c.provider = "github" => HasStamp(c)

\* a failed build that started 121 minutes ago was looked at by an alert with
\* recentMinutes = 120 and event FAILURE, the pass has returned, and nothing was
\* dispatched or recorded for it
Wit_C24 ==
  /\ pass[1].pc = "done"
  /\ feed.svc = Build(42, "FAILURE", TRUE, -121)
  /\ alerts["a1"].recentMinutes = 120 /\ alerts["a1"].event = ""
  /\ EnteredJob(1, "a1", "j1", "svc-ci")
  /\ feed.svc2.number = 43
  /\ ~\E c \in DispatchedBy(1) : c.cfg = "j1"
  /\ \A i \in (pass[1].h0 + 1)..Len(history) : history[i].message.number # 42

\* a failed build without timestamp was dispatched and recorded
Wit_C24_nostamp ==
  /\ pass[1].pc = "done"
  /\ feed.svc = Build(42, "FAILURE", FALSE, 0)
  /\ \E c \in DispatchedBy(1) : c.cfg = "j1" /\ c.target = "svc-ci"
  /\ Len(history) > pass[1].h0

\* the outcome of a run as the declared semantics see it: still running, failed,
\* succeeded, or ended otherwise
JenkinsOutcome(last) ==
  CASE last.result = "" -> "running"
    [] last.result = "FAILURE" -> "failed"
    [] last.result = "SUCCESS" -> "succeeded"
    [] OTHER -> "ended"
GitHubOutcome(run) ==
  CASE run.status # "completed" -> "running"
    [] run.conclusion = "failure" -> "failed"
    [] run.conclusion = "success" -> "succeeded"
    [] OTHER -> "ended"

\* the declared semantics of the three events
Declared(event, outcome) ==
  CASE event = "FAILURE" -> outcome = "failed"
    [] event = "SUCCESS" -> outcome = "succeeded"
    [] event = "COMPLETED" -> outcome \in {"failed", "succeeded", "ended"}
    [] OTHER -> FALSE

\* pass p has dispatched for the target of the integration
Fired(p, cfg, target) == \E c \in DispatchedBy(p) : c.cfg = cfg /\ c.target = target

\* an event of the alert with the message was written since pass p started
NotifiedSince(p, id, message) ==
  \E i \in (pass[p].h0 + 1)..Len(history) :
     history[i].alertId = id /\ history[i].message = message

\* C25: a pass that has returned has dispatched for a target only if the target's
\* latest run has the outcome the alert's event declares, never for a run that is
\* still running; and every latest run inside the window with the declared outcome
\* has its event in the history, for Jenkins jobs and for the GitHub repository.
Thm_C25 ==
  (pass[1].pc = "done") =>
     LET a == alerts["a1"] IN
     /\ WantsJenkins(a) =>
          \A cfg \in Range(ActiveJenkins) : \A name \in TargetsOf(a, cfg) :
             LET last == JenkinsLastBuild(cfg, name) IN
             /\ Fired(1, cfg, name) => Declared(EventOf(a), JenkinsOutcome(last))
             /\ (~JenkinsTooOld(last, RecentOf(a), now)
                   /\ Declared(EventOf(a), JenkinsOutcome(last)))
                  => NotifiedSince(1, "a1", JenkinsMessage(name, last))
     /\ WantsGitHub(a) =>
          \A cfg \in Range(ActiveGitHub) : GitHubRuns(cfg) # <<>> =>
             LET run == GitHubRuns(cfg)[1]
                 msg == GitHubMessage(GitHubRow(cfg), run) IN
             /\ Fired(1, cfg, msg.target) => Declared(EventOf(a), GitHubOutcome(run))
             /\ (~GitHubTooOld(run, RecentOf(a), now)
                   /\ Declared(EventOf(a), GitHubOutcome(run)))
                  => NotifiedSince(1, "a1", msg)

\* an aborted build has been dispatched for an alert on COMPLETED, and the build of
\* web that is still running has not
Wit_C25 ==
  /\ pass[1].pc = "done"
  /\ alerts["a1"].event = "COMPLETED"
  /\ feed.svc.result = "ABORTED"
  /\ Fired(1, "j1", "svc-ci")
  /\ EnteredJob(1, "a1", "j1", "web") /\ ~Fired(1, "j1", "web")

\* a cancelled run of the repository has been passed over by an alert on FAILURE
Wit_C25_github ==
  /\ pass[1].pc = "done"
  /\ alerts["a1"].event = "" /\ alerts["a1"].provider = "github"
  /\ feed.runs # <<>>
  /\ feed.runs[1].conclusion = "cancelled" /\ feed.runs[1].ts = -5
  /\ EnteredCfg(1, "a1", "github", "g1")
  /\ pass[1].dispatched = <<>>

\* ---------------------------------------------------------------------------
\* The links of the Jenkins adapter (socketService.js, normalizeJob,
\* normalizeBuild and getJobInfo).
\*
\* A string that holds a link is modelled by what the URL parser makes of it: its
\* origin (scheme, host and port), its path as the sequence of the segments that
\* follow each "/", its query and its fragment. "/job/x/" is <<"job", "x", "">>
\* and "/" is <<"">>.
\* ---------------------------------------------------------------------------

\* a string that parses as an http(s) URL
Link(origin, path, search, hash) ==
  [kind |-> "url", origin |-> origin, path |-> path, search |-> search, hash |-> hash]
\* undefined, or the empty string
AbsentUrl == [kind |-> "absent", origin |-> "", path |-> <<>>, search |-> "", hash |-> ""]
\* a string new URL() rejects
BadUrl == [kind |-> "garbage", origin |-> "", path |-> <<>>, search |-> "", hash |-> ""]

\* the scheme of an origin
SchemeOf(origin) == IF origin \in {"https://proxy", "https://ci"} THEN "https://" ELSE "http://"

\* new URL(reference, base) for a reference that starts with "/", as pathname +
\* search + hash of a parsed http(s) URL always does: the reference is an
\* absolute path, which replaces the whole path of the base; one that starts with
\* "//" is scheme-relative and replaces the host as well
ResolveAbsolutePath(path, search, hash, base) ==
  IF Len(path) >= 2 /\ path[1] = ""
    THEN Link(SchemeOf(base.origin) \o path[2],
              IF Len(path) = 2 THEN <<"">> ELSE SubSeq(path, 3, Len(path)), search, hash)
    ELSE Link(base.origin, path, search, hash)

\* the try block of normalizeJob, normalizeBuild and getJobInfo: a missing link
\* or base is left alone, and so is a link when either string does not parse
RewriteUrl(url, baseURL) ==
  IF baseURL.kind = "absent" \/ url.kind = "absent" THEN url
  ELSE IF baseURL.kind = "garbage" \/ url.kind = "garbage" THEN url
  ELSE ResolveAbsolutePath(url.path, url.search, url.hash,
                           Link(baseURL.origin, baseURL.path, "", ""))

\* the base URLs an integration is configured with, and the links Jenkins serves
BaseUrls ==
  {Link("https://proxy", <<"">>, "", ""), Link("https://proxy", <<"jenkins", "">>, "", ""),
   Link("https://proxy", <<"jenkins">>, "", ""), Link("http://internal:8080", <<"">>, "", ""),
   BadUrl}
UpstreamPaths == {<<"">>, <<"job", "x", "">>, <<"job", "x", "42", "">>, <<"", "mirror", "x">>}
UpstreamUrls ==
  {Link("http://internal:8080", path, search, hash) :
     path \in UpstreamPaths, search \in {"", "?a=1"}, hash \in {"", "#b"}}
    \cup {AbsentUrl, BadUrl}

LinkInit ==
  /\ EngineAtRest
  /\ linkIn \in {[of |-> k, url |-> u, baseURL |-> b] :
                   k \in {"job", "build", "info"}, u \in UpstreamUrls, b \in BaseUrls}
  /\ linkOut = NoLinkOut
  /\ sanIn = NoSanIn
  /\ sanOut = NoSan
  /\ jobsIn = NoJobsIn
  /\ jobsOut = NoJobsOut
  /\ runsIn = NoRunsIn
  /\ sumOut = NoSumOut

\* normalizeJob(job, baseURL)
NormalizeJob ==
  /\ linkIn.of = "job" /\ ~linkOut.done
  /\ linkOut' = [done |-> TRUE, url |-> RewriteUrl(linkIn.url, linkIn.baseURL)]
  /\ UNCHANGED <<engineVars, sanVars, jobVars, sumVars, linkIn>>

\* normalizeBuild(build, baseURL)
NormalizeBuild ==
  /\ linkIn.of = "build" /\ ~linkOut.done
  /\ linkOut' = [done |-> TRUE, url |-> RewriteUrl(linkIn.url, linkIn.baseURL)]
  /\ UNCHANGED <<engineVars, sanVars, jobVars, sumVars, linkIn>>

\* the rewrite of info.url in getJobInfo
GetJobInfo ==
  /\ linkIn.of = "info" /\ ~linkOut.done
  /\ linkOut' = [done |-> TRUE, url |-> RewriteUrl(linkIn.url, linkIn.baseURL)]
  /\ UNCHANGED <<engineVars, sanVars, jobVars, sumVars, linkIn>>

LinkNext == NormalizeJob \/ NormalizeBuild \/ GetJobInfo

LinkSpec == LinkInit /\ [][LinkNext]_vars

\* the link the rewrite is meant to produce: the origin and base path of the
\* integration, followed by the path, query and fragment of the upstream link
UnderBase(url, baseURL) ==
  Link(baseURL.origin,
       (IF baseURL.path[Len(baseURL.path)] = ""
          THEN SubSeq(baseURL.path, 1, Len(baseURL.path) - 1) ELSE baseURL.path) \o url.path,
       url.search, url.hash)

\* C26: a link that has been rewritten is the origin and base path of the
\* integration followed by the upstream path, query and fragment.
Cex_C26 ==
  (linkOut.done /\ linkIn.url.kind = "url" /\ linkIn.baseURL.kind = "url")
     => linkOut.url = UnderBase(linkIn.url, linkIn.baseURL)

\* what the rewrite keeps: the query and fragment of the upstream link always,
\* and, for an upstream path that does not start with "//", the origin of the
\* integration and the whole upstream path; a base at the root of its host gets
\* the link the rewrite is meant to produce
C26_Origin ==
  (linkOut.done /\ linkIn.url.kind = "url" /\ linkIn.baseURL.kind = "url") =>
     /\ linkOut.url.search = linkIn.url.search /\ linkOut.url.hash = linkIn.url.hash
     /\ (linkIn.url.path[1] # "" \/ Len(linkIn.url.path) = 1) =>
          /\ linkOut.url.origin = linkIn.baseURL.origin
          /\ linkOut.url.path = linkIn.url.path
          /\ (linkIn.baseURL.path = <<"">> => linkOut.url = UnderBase(linkIn.url, linkIn.baseURL))

\* the example: base https://proxy/jenkins/ and link http://internal:8080/job/x/?a=1#b
\* give https://proxy/job/x/?a=1#b
C26_Example ==
  /\ linkOut.done
  /\ linkIn.baseURL = Link("https://proxy", <<"jenkins", "">>, "", "")
  /\ linkIn.url = Link("http://internal:8080", <<"job", "x", "">>, "?a=1", "#b")
  /\ linkOut.url = Link("https://proxy", <<"job", "x", "">>, "?a=1", "#b")

\* the dispatchChannels calls of all passes for the alert and message
DispatchesOf(id, message) ==
  {x \in PassIds \X (1..(2 * MaxItems + 2)) :
     /\ x[2] <= Len(pass[x[1]].dispatched)
     /\ pass[x[1]].dispatched[x[2]].alertId = id
     /\ pass[x[1]].dispatched[x[2]].message = message}

\* no two passes that have started have overlapped
NoOverlap == \A p \in PassIds, o \in PassIds :
  (p # o /\ Started(p) /\ Started(o)) => ~Overlapped(p, o)

\* every history write so far has succeeded
WritesSucceeded == \A p \in PassIds : pass[p].recordErrors = 0

\* every run that was dispatched has a timestamp, and not one after the dispatch
RealStamps == \A p \in PassIds : \A c \in DispatchedBy(p) : HasStamp(c) /\ StampOf(c) <= 0

\* C27: when passes have not overlapped and every history write has succeeded, a
\* run with a real timestamp has been dispatched at most once for an alert,
\* however many passes have evaluated it and however much time has passed.
Thm_C27 ==
  (NoOverlap /\ WritesSucceeded /\ RealStamps) =>
     \A id \in AlertIdSet : \A p \in PassIds : \A c \in DispatchedBy(p) :
        c.alertId = id => Cardinality(DispatchesOf(id, c.message)) <= 1

\* the first pass dispatched a run and recorded it; the second pass started after
\* the first had returned and after time had passed, found the same run still
\* inside the recency window, and has returned without dispatching it again
Wit_C27 ==
  /\ pass[1].pc = "done" /\ pass[2].pc = "done" /\ 1 \in pass[2].pred
  /\ now > 0 /\ pass[2].dispatched = <<>>
  /\ WritesSucceeded
  /\ \E c \in DispatchedBy(1) :
        /\ c.provider = "jenkins"
        /\ ~JenkinsTooOld(JenkinsLastBuild(c.cfg, c.target), RecentOf(alerts[c.alertId]), now)
        /\ \E i \in 1..Len(history) :
              history[i].alertId = c.alertId /\ history[i].message = c.message
                /\ history[i].sentAt = 0
        /\ EnteredJob(2, c.alertId, c.cfg, c.target)

\* the events of the alert and message written since pass p started
EventsSince(p, id, message) ==
  {i \in (pass[p].h0 + 1)..Len(history) :
     history[i].alertId = id /\ history[i].message = message}

\* the latest build of the job in the integration is inside the window of the
\* alert and matches its event
Due(a, cfg, name) ==
  LET last == JenkinsLastBuild(cfg, name) IN
  /\ last.found
  /\ ~JenkinsTooOld(last, RecentOf(a), now)
  /\ JenkinsMatches(EventOf(a), last)

\* C28: when the two Jenkins integrations both report a matching latest build of
\* the job svc-ci, a pass that has returned has dispatched and recorded it once,
\* for the first integration, if the two builds have the same number and outcome,
\* and once for each integration if they differ in either.
Thm_C28 ==
  LET a == alerts["a1"] IN
  (pass[1].pc = "done" /\ WantsJenkins(a) /\ Due(a, "j1", "svc-ci") /\ Due(a, "j2", "svc-ci")) =>
     LET b1 == JenkinsLastBuild("j1", "svc-ci")
         b2 == JenkinsLastBuild("j2", "svc-ci")
         m1 == JenkinsMessage("svc-ci", b1)
         m2 == JenkinsMessage("svc-ci", b2)
     IN  /\ Fired(1, "j1", "svc-ci")
         /\ Cardinality(EventsSince(1, "a1", m1)) = 1
         /\ IF b1.number = b2.number /\ b1.result = b2.result
              THEN /\ m1 = m2
                   /\ ~Fired(1, "j2", "svc-ci")
                   /\ Cardinality(DispatchesOf("a1", m1)) = 1
              ELSE /\ m1 # m2
                   /\ Fired(1, "j2", "svc-ci")
                   /\ Cardinality(EventsSince(1, "a1", m2)) = 1

\* both integrations report build #42 of svc-ci as failed; the pass has looked at
\* the job in both, has dispatched for the first and not for the second
Wit_C28 ==
  /\ pass[1].pc = "done"
  /\ feed.svc.number = 42 /\ feed.svc2.number = 42
  /\ feed.svc.result = "FAILURE" /\ feed.svc2.result = "FAILURE"
  /\ EnteredJob(1, "a1", "j1", "svc-ci") /\ EnteredJob(1, "a1", "j2", "svc-ci")
  /\ Fired(1, "j1", "svc-ci") /\ ~Fired(1, "j2", "svc-ci")

\* the second integration reports build #43 and the pass has dispatched for both
Wit_C28_differ ==
  /\ pass[1].pc = "done"
  /\ feed.svc.number = 42 /\ feed.svc2.number = 43
  /\ Fired(1, "j1", "svc-ci") /\ Fired(1, "j2", "svc-ci")

TagNext ==
  \/ \E p \in PassIds : PassStep(p)
  \/ StartAlertScheduler
  \/ Tick

TagSpec == TagInit /\ [][TagNext]_vars

\* nothing was done for the alert: no provider call, no history query, no
\* dispatchChannels call in any pass and no event
Untouched(id) ==
  /\ \A provider \in {"jenkins", "github"} : <<id, provider>> \notin calls
  /\ id \notin queried
  /\ EventsOf(id) = {}
  /\ \A p \in PassIds : AttemptsFor(p, id) = {}

\* C29 (as stated): an alert of another type than BUILD_FAILURE, CUSTOM and
\* PERFORMANCE_DEGRADATION, and an alert whose conditions.provider is neither
\* empty nor 'jenkins' nor 'github', is left untouched by every pass.
Cex_C29 ==
  \A id \in AlertIdSet :
     (~EvaluatedType(alerts[id]) \/ alerts[id].provider \notin {"", "jenkins", "github"})
        => Untouched(id)

\* C29 (as amended): an alert of another type than BUILD_FAILURE, CUSTOM and
\* PERFORMANCE_DEGRADATION, and an alert whose conditions.provider in lower case
\* is neither empty nor 'jenkins' nor 'github', is left untouched by every pass;
\* a provider call for an alert is a call to the provider its tag in lower case
\* names, or to either when the tag is empty.
Thm_C29 ==
  \A id \in AlertIdSet :
     /\ (~EvaluatedType(alerts[id])
           \/ LowerTag(alerts[id].provider) \notin {"", "jenkins", "github"})
          => Untouched(id)
     /\ \A provider \in {"jenkins", "github"} : <<id, provider>> \in calls =>
          /\ alerts[id].isActive
          /\ alerts[id].type \in {"BUILD_FAILURE", "CUSTOM", "PERFORMANCE_DEGRADATION"}
          /\ LowerTag(alerts[id].provider) \in {"", provider}

\* both passes have fetched an active SECURITY_ISSUE alert and have returned, time
\* has passed in between, and nothing was done for the alert
Wit_C29 ==
  /\ \A p \in PassIds : pass[p].pc = "done" /\ pass[p].alerts = <<"a1">>
  /\ now > 0
  /\ alerts["a1"].type = "SECURITY_ISSUE" /\ alerts["a1"].provider = ""
  /\ Untouched("a1")

\* the same with an alert of type CUSTOM and the tag gitlab
Wit_C29_tag ==
  /\ \A p \in PassIds : pass[p].pc = "done" /\ pass[p].alerts = <<"a1">>
  /\ alerts["a1"].type = "CUSTOM" /\ alerts["a1"].provider = "gitlab"
  /\ Untouched("a1")

\* an alert with the tag Jenkins has been evaluated against Jenkins and dispatched
Wit_C29_case ==
  /\ alerts["a1"].provider = "Jenkins"
  /\ <<"a1", "jenkins">> \in calls
  /\ AttemptsFor(1, "a1") # {}

\* ---------------------------------------------------------------------------
\* The scheduler called again and again, and the instants of the cron schedule.
\* ---------------------------------------------------------------------------

\* how often startAlertScheduler is called
MaxStarts == 3

SchedInit ==
  /\ alerts = [id \in {"a1", "a2"} |->
                 IF id = "a1" THEN [BaseAlert("a1") EXCEPT !.slackUrl = ""]
                 ELSE [BaseAlert("a2") EXCEPT !.isActive = FALSE]]
  /\ now = 0
  /\ ticks = 0
  /\ history = <<>>
  /\ pass = [p \in PassIds |-> IdlePass]
  /\ calls = {}
  /\ queried = {}
  /\ faults = MaxFaults
  /\ scheduled = FALSE
  /\ testOut = NoTest
  /\ boot = NotBooted(Unset)
  /\ feed = DefaultFeed
  /\ sanIn = NoSanIn
  /\ sanOut = NoSan
  /\ jobsIn = NoJobsIn
  /\ jobsOut = NoJobsOut
  /\ runsIn = NoRunsIn
  /\ sumOut = NoSumOut
  /\ linkIn = NoLinkIn
  /\ linkOut = NoLinkOut

\* startAlertScheduler() is called, at any time: cron.schedule registers a job and
\* returns it, or throws
StartAgain ==
  /\ boot.starts < MaxStarts
  /\ \E registers \in BOOLEAN :
       /\ scheduled' = startAlertScheduler(scheduled, registers)
       /\ boot' = [boot EXCEPT !.starts = @ + 1,
                               !.jobs = @ + Registered(scheduled, registers)]
  /\ UNCHANGED <<alerts, now, ticks, history, pass, calls, queried, faults, testOut, feed, pureVars>>

\* the passes that have not been run yet
IdlePasses == {p \in PassIds : pass[p].pc = "idle"}

\* an instant of the cron schedule: node-cron invokes the callback of every
\* registered job, and every callback calls evaluateAndSendAlerts()
CronFire ==
  /\ boot.jobs > 0
  /\ IdlePasses # {}
  /\ LET begin == {p \in IdlePasses :
                     Cardinality({o \in IdlePasses : o < p}) < boot.jobs} IN
     \E dbOk \in Outcomes :
       /\ pass' = [p \in PassIds |-> IF p \in begin THEN Begun(p, "tick", dbOk) ELSE pass[p]]
       /\ faults' = Failed(dbOk)
       /\ boot' = [boot EXCEPT !.fired = boot.jobs]
  /\ UNCHANGED <<alerts, now, ticks, history, calls, queried, scheduled, testOut, feed, pureVars>>

\* a pass that has begun goes on
PassRun(p) ==
  \/ JenkinsBegin(p)
  \/ GetJobs(p)
  \/ JenkinsJob(p)
  \/ GitHubBegin(p)
  \/ GitHubCfg(p)
  \/ Dispatch(p)
  \/ Record(p)

SchedNext ==
  \/ StartAgain
  \/ CronFire
  \/ \E p \in PassIds : PassRun(p)
  \/ Tick

SchedSpec == SchedInit /\ [][SchedNext]_vars

\* a step is a call of startAlertScheduler
IsStart == boot'.starts = boot.starts + 1

\* the passes a step begins
BegunBy == {p \in PassIds : pass[p].pc = "idle" /\ pass'[p].pc # "idle"}

\* C30: however often startAlertScheduler is called, at most one cron job is
\* registered, and the module variable holds a job exactly when one is; an
\* instant of the schedule invokes at most one callback and no step begins more
\* than one pass; a call made while a job is registered changes nothing; a call
\* made while none is registers one or throws, and leaves the scheduler
\* unregistered only if it threw.
Thm_C30 ==
  /\ [](/\ boot.jobs <= 1
        /\ boot.fired <= 1
        /\ scheduled <=> boot.jobs = 1)
  /\ [][Cardinality(BegunBy) <= 1]_vars
  /\ [][(IsStart /\ scheduled) =>
          /\ scheduled' /\ boot'.jobs = boot.jobs
          /\ UNCHANGED <<alerts, now, ticks, history, pass, calls, queried, faults,
                         testOut, feed>>]_vars
  /\ [][(IsStart /\ ~scheduled) =>
          \/ scheduled' /\ boot'.jobs = 1
          \/ ~scheduled' /\ boot'.jobs = 0]_vars

\* startAlertScheduler was called three times: the first call threw, the second
\* registered the job, the third was made while it was registered; an instant of
\* the schedule has begun one pass
Wit_C30 ==
  /\ boot.starts = 3 /\ boot.jobs = 1 /\ scheduled
  /\ boot.fired = 1
  /\ pass[1].pc = "done" /\ pass[1].kind = "tick" /\ pass[2].pc = "idle"

\* a call has thrown and none has been made since: no job is registered
Wit_C30_threw == boot.starts = 1 /\ boot.jobs = 0 /\ ~scheduled

====
